---- MODULE Spec2Model ----
(***************************************************************************)
(* A model of gravity-server's messaging core:                             *)
(*   - BasePublisher.publish / publishToStream (dual-path delivery),       *)
(*   - EventBus (per-channel handler registry over a subscribe-mode        *)
(*     connection),                                                        *)
(*   - RedisManager (the standard and pub/sub connection pools and         *)
(*     closeAllConnections),                                               *)
(*   - the envelope builders (createBaseMessage, createBaseEvent) and the  *)
(*     typed publishers built on them,                                     *)
(*   - BatchPublisher (pipelined broadcasts).                              *)
(* Each component has its own specification over the shared variables;     *)
(* the variables of the other components stay at their initial values.     *)
(***************************************************************************)
EXTENDS Integers, Sequences, FiniteSets, TLC

VARIABLES
    \* ---- delivery engine (BasePublisher) ----
    stream,        \* the Redis stream `${REDIS_NAMESPACE}:workflow:events:stream`: entries in append order
    pubsub,        \* what has been broadcast with PUBLISH, in order: [channel, message]
    redisQueue,    \* commands issued on the publisher's connection, awaiting their reply (FIFO)
    call,          \* per caller: the position of its publish() call and what happened to it
    nPublish,      \* publish() calls started so far
    calls,         \* the publish() calls started so far, in start order: [caller, channel]
    streamBy,      \* for each stream entry, the publish() call that appended it
    pubsubBy,      \* for each broadcast, the publish() call that issued it
    \* ---- EventBus ----
    handlers,      \* this.handlers: channel -> ordered handler set, or NoSet when the key is absent
    subQueue,      \* calls suspended on a command of the subscriber connection, in issue order
    subscribed,    \* channels the subscriber connection is subscribed to at the transport
    closures,      \* the unsubscribe closures subscribe() has returned so far: <<channel, handler>>
    dispatch,      \* the "message" callback in progress (or the last one that ran)
    failed,        \* calls that ended with an exception raised inside EventBus
    refused,       \* calls that rejected with the transport's error: <<command, channel, handler>>
    microtasks,    \* a handler called in the task at hand may have left a continuation queued
    nSubscribe,    \* per channel: transport SUBSCRIBE commands issued
    nUnsubscribe,  \* per channel: transport UNSUBSCRIBE commands issued
    nBusOps,       \* EventBus operations started so far
    \* ---- RedisManager ----
    standardConnections,  \* Map<string, Redis>: key -> connection handle
    pubsubConnections,    \* Map<string, Redis>: key -> connection handle
    created,              \* every connection `new Redis(config)` has made: handle -> [key, pool]
    acquired,             \* what the acquire calls returned so far: [options, pool, handle]
    buses,                \* EventBus instances constructed: [publisher, subscriber]
    subscriberMode,       \* connections that have entered subscribe mode
    nAcquire,             \* acquire calls and constructions so far
    closed,               \* connections that have ended
    quits,                \* per connection: the QUIT commands awaiting their reply, in issue order
    closeCalls,           \* the closeAllConnections() calls so far: [pc, clients, waiting]
    \* ---- envelope builders ----
    partial,       \* the partial envelope handed to a builder
    envelope,      \* what the builder did with it
    \* ---- BatchPublisher ----
    batch,         \* the batch call of the run: its position, its pipeline and the replies
    \* ---- singleton publisher getters ----
    instances,     \* per message kind: the module-private `...PublisherInstance`
    lastGet,       \* the last getter call: its kind, arguments, and how it ended
    nGet,          \* getter calls so far
    getThrew,      \* kinds whose getter has raised its configuration error
    \* ---- Publisher objects ----
    publishers,    \* the Publisher objects constructed: [redis], the connection each refers to
    \* ---- EventBus instances on one pooled subscriber connection ----
    handlersOf,      \* per EventBus instance: its this.handlers (channel -> Set, or NoSet)
    wire,            \* channels the shared subscriber connection is subscribed to
    wireQueue,       \* commands issued on the shared connection, awaiting their reply (FIFO)
    issued,          \* the unsubscribe closures returned so far: [bus, channel, handler]
    invokedClosures, \* the closures (positions in issued) that have been invoked
    rejected,        \* subscribe calls whose promise was rejected: [bus, channel, handler]
    nShared,         \* subscribe and unsubscribe calls so far
    \* ---- reconnect ----
    times,         \* reconnect attempts of a connection so far
    delays,        \* the delay retryStrategy answered for each of them, in order
    \* ---- publisher to EventBus ----
    inbox,         \* broadcasts the transport has handed to the subscriber connection
    received,      \* the handler calls so far: [handler, event], in order
    sent,          \* the typed publisher calls so far: [method, ok, message]
    nEvents,       \* publishEvent() calls so far
    served         \* the outcomes of the PUBLISH commands the server has run and whose reply is unread

pubVars  == <<stream, pubsub, redisQueue, call, nPublish, calls, streamBy, pubsubBy>>
busVars  == <<handlers, subQueue, subscribed, closures, dispatch, failed, refused, microtasks,
              nSubscribe, nUnsubscribe, nBusOps>>
poolVars == <<standardConnections, pubsubConnections, created, acquired, buses,
              subscriberMode, nAcquire>>
closeVars == <<closed, quits, closeCalls>>
envVars  == <<partial, envelope>>
batchVars == <<batch>>
singletonVars == <<instances, lastGet, nGet, getThrew>>
retryVars == <<times, delays>>
tripVars == <<inbox, received, sent, nEvents, served>>
lifeVars == <<publishers>>
sharedVars == <<handlersOf, wire, wireQueue, issued, invokedClosures, rejected, nShared>>
vars     == <<pubVars, busVars, poolVars, closeVars, envVars, batchVars,
              singletonVars, retryVars, tripVars, lifeVars, sharedVars>>

(***************************************************************************)
(* Bounds of the model.                                                    *)
(***************************************************************************)
NCallers   == 2     \* concurrent call sites of publish()
MaxPublish == 2     \* publish() calls per run
MaxBusOps  == 5     \* subscribe()/unsubscribe()/inbound messages per run
MaxAcquire == 3     \* acquire calls and EventBus constructions per run
MaxClose   == 2     \* closeAllConnections() calls per run
MaxEvents  == 1     \* publishEvent() calls per run
MaxDisconnect == 2  \* QUITs of EventBus.disconnect() awaiting their reply on one connection
MaxBatchLen == 3    \* messages handed to one batch call
MaxGet      == 2    \* singleton getter calls in a run
MaxAttempts == 120  \* consecutive reconnect attempts of a connection
MaxShared   == 5    \* subscribe and unsubscribe calls on the buses of a shared connection

Callers == 1..NCallers

(***************************************************************************)
(* JavaScript values.                                                      *)
(***************************************************************************)
Undefined == "undefined"
Circular  == "[Circular]"     \* a value JSON.stringify cannot serialize
Throws    == "throws"

Last(s) == s[Len(s)]
Range(s) == {s[i] : i \in DOMAIN s}

\* a || b
OrElse(a, b) == IF a = Undefined \/ a = "" THEN b ELSE a

\* o.k
Get(o, k) == IF k \in DOMAIN o THEN o[k] ELSE Undefined

\* !v
Not(v) == v = Undefined \/ v = ""

\* How a call ends: with an exception, or with a value.
Thrown(msg)   == [ok |-> FALSE, error |-> msg]
Returned(val) == [ok |-> TRUE, value |-> val]

AI_RESULT_CHANNEL == "gravity:output"

\* Own enumerable properties in the order the publishers write them:
\* { ...this.createBaseMessage(baseMessage), __typename, text }
FieldOrder == <<"id", "chatId", "conversationId", "userId", "providerId", "timestamp", "type",
                "__typename", "text", "component">>
\* { ...baseMessage, __typename: "NodeExecutionEvent", ..., nodeId, ..., state, timestamp, ... }
NodeFieldOrder == <<"chatId", "conversationId", "userId", "__typename", "nodeId", "state",
                    "timestamp">>

\* The members of a message that hold an object: component: { type, props: { ... } }.
ComponentOrder == <<"type", "props">>
PropsOrder     == <<"message", "progress">>

Serializable(m) == \A k \in DOMAIN m \ {"component"} : m[k] # Circular

\* JSON.stringify of an object whose members are strings and numbers, as the sequence
\* of its "key":value pairs in property order.
JSONmembers(o, order) ==
    LET present(k) == k \in DOMAIN o
        keys == SelectSeq(order, present)
    IN  [i \in 1..Len(keys) |-> <<keys[i], o[keys[i]]>>]

\* JSON.stringify of component
JSONcomponent(c) ==
    <<<<"type", c.type>>, <<"props", JSONmembers(c.props, PropsOrder)>>>>

\* JSON.stringify of a message: members whose value is undefined are left out, an
\* object member is serialized in its place.
JSONstringify_NoNesting(m) ==
    IF ~Serializable(m) THEN Throws
    ELSE LET present(k) == k \in DOMAIN m /\ k # "component" /\ m[k] # Undefined
             order == IF m.__typename = "NodeExecutionEvent" THEN NodeFieldOrder ELSE FieldOrder
             keys == SelectSeq(order, present)
         IN  [i \in 1..Len(keys) |-> <<keys[i], m[keys[i]]>>]

JSONstringify(m) ==
    IF ~Serializable(m) THEN Throws
    ELSE LET present(k) == k \in DOMAIN m /\ (k = "component" \/ m[k] # Undefined)
             order == IF m.__typename = "NodeExecutionEvent" THEN NodeFieldOrder ELSE FieldOrder
             keys == SelectSeq(order, present)
         IN  [i \in 1..Len(keys) |->
                 <<keys[i], IF keys[i] = "component" THEN JSONcomponent(m.component)
                                                     ELSE m[keys[i]]>>]

(***************************************************************************)
(* The inputs of publish(): messages and options.                          *)
(***************************************************************************)
PublishMessages ==
    [__typename : {"Text"}, chatId : {"c1"}, conversationId : {"v1", Undefined},
     userId : {"u1"}, text : {"hi", Circular}]

CustomChannel == "custom:channel"
\* An options object without a channel property stands for an absent options argument
\* too: options?.channel is undefined for both.
PublishOptionsSet ==
    {[useStream |-> TRUE], [useStream |-> FALSE], [channel |-> Undefined], [channel |-> ""],
     [channel |-> CustomChannel]}

ProviderId == "my-service"

\* options?.channel
OptionsChannel(options) == IF "channel" \in DOMAIN options THEN options.channel ELSE Undefined

\* BasePublisher.publish: the channel handed to publishToStream
PublishChannel_NoOverride(options) == AI_RESULT_CHANNEL

PublishChannel(options) == OrElse(OptionsChannel(options), AI_RESULT_CHANNEL)

\* The field/value pairs of the XADD issued by publishToStream (the entry id "*" and the
\* Date.now() timestamp are chosen outside the model).
XaddFields_WrongChannel(channel, message) ==
    [channel        |-> AI_RESULT_CHANNEL,
     conversationId |-> OrElse(Get(message, "conversationId"), ""),
     message        |-> JSONstringify(message),
     providerId     |-> ProviderId]

XaddFields(channel, message) ==
    [channel        |-> channel,
     conversationId |-> OrElse(Get(message, "conversationId"), ""),
     message        |-> JSONstringify(message),
     providerId     |-> ProviderId]

\* The arguments of this.redis.publish(channel, JSON.stringify(message)).
PublishArgs(channel, message) ==
    [channel |-> channel, message |-> JSONstringify(message)]

NoEntry == 0     \* no stream entry id

IdleCall ==
    [pc |-> "idle", channel |-> Undefined, message |-> Undefined, entryId |-> NoEntry,
     xadd |-> "none", broadcasts |-> 0, lastBroadcast |-> "none"]

\* Replies of the transport to a command.
XaddReplies    == {"ok", "null", "error"}
PublishReplies == {"ok", "error"}

\* Where publishToStream continues after the reply to XADD: the try block goes on to
\* PUBLISH (also when no entry id came back), a rejection enters the catch block.
AfterXadd_Abort(reply) == IF reply = "error" THEN "threw" ELSE "publish"

AfterXadd(reply) == IF reply = "error" THEN "fallback" ELSE "publish"

\* ... after the reply to the PUBLISH of the try block.
AfterPublish(reply) == IF reply = "error" THEN "fallback" ELSE "returned"

\* ... after the reply to the PUBLISH of the catch block: `throw pubsubError`.
AfterFallback_Swallow(reply) == "returned"

AfterFallback(reply) == IF reply = "error" THEN "threw" ELSE "returned"

\* A command of publish() call number n, made by caller c.
Command(c, n, cmd) == [caller |-> c, n |-> n, cmd |-> cmd]

\* `await this.publishToStream(channel, message)`: publish() settles when publishToStream
\* has, so a caller that awaits it makes its next call after that.
CallCompleted_NoAwait(pc) == TRUE

CallCompleted(pc) == pc \in {"idle", "returned", "threw"}

\* publish(message, options) up to its first await: the channel is resolved and
\* publishToStream evaluates the arguments of xadd. A message that cannot be
\* serialized throws there, and again in the catch block's publish statement.
PublishStart(c, message, options) ==
    /\ CallCompleted(call[c].pc)
    /\ nPublish < MaxPublish
    /\ nPublish' = nPublish + 1
    /\ LET channel == PublishChannel(options) IN
       /\ calls' = Append(calls, [caller |-> c, channel |-> channel])
       /\ IF Serializable(message)
          THEN /\ call' = [call EXCEPT ![c] =
                       [IdleCall EXCEPT !.pc = "xadd", !.channel = channel, !.message = message]]
               /\ redisQueue' = Append(redisQueue, Command(c, nPublish + 1, "xadd"))
          ELSE /\ call' = [call EXCEPT ![c] =
                       [IdleCall EXCEPT !.pc = "threw", !.channel = channel, !.message = message,
                                        !.lastBroadcast = "error"]]
               /\ UNCHANGED redisQueue
    /\ UNCHANGED <<stream, pubsub, streamBy, pubsubBy>>

\* The reply to the XADD at the head of the connection's queue.
XaddReply(reply) ==
    /\ redisQueue # <<>>
    /\ Head(redisQueue).cmd = "xadd"
    /\ LET c == Head(redisQueue).caller
           n == Head(redisQueue).n
           next == AfterXadd(reply)
       IN  /\ stream' = IF reply = "ok"
                        THEN Append(stream, XaddFields(call[c].channel, call[c].message))
                        ELSE stream
           /\ streamBy' = IF reply = "ok" THEN Append(streamBy, n) ELSE streamBy
           /\ call' = [call EXCEPT ![c].pc = next,
                                   ![c].xadd = reply,
                                   ![c].entryId = IF reply = "ok" THEN Len(stream) + 1 ELSE NoEntry]
           /\ redisQueue' = IF next \in {"publish", "fallback"}
                            THEN Append(Tail(redisQueue), Command(c, n, next))
                            ELSE Tail(redisQueue)
    /\ UNCHANGED <<pubsub, nPublish, calls, pubsubBy>>

\* The reply to a PUBLISH at the head of the connection's queue, from the try block
\* (cmd = "publish") or from the catch block (cmd = "fallback").
PublishReply(reply) ==
    /\ redisQueue # <<>>
    /\ Head(redisQueue).cmd \in {"publish", "fallback"}
    /\ LET c == Head(redisQueue).caller
           n == Head(redisQueue).n
           next == IF Head(redisQueue).cmd = "publish"
                   THEN AfterPublish(reply) ELSE AfterFallback(reply)
       IN  /\ pubsub' = IF reply = "ok"
                        THEN Append(pubsub, PublishArgs(call[c].channel, call[c].message))
                        ELSE pubsub
           /\ pubsubBy' = IF reply = "ok" THEN Append(pubsubBy, n) ELSE pubsubBy
           /\ call' = [call EXCEPT ![c].pc = next,
                                   ![c].broadcasts = @ + (IF reply = "ok" THEN 1 ELSE 0),
                                   ![c].lastBroadcast = reply,
                                   \* the catch block returns '' in place of the entry id
                                   ![c].entryId = IF Head(redisQueue).cmd = "fallback"
                                                  THEN NoEntry ELSE @]
           /\ redisQueue' = IF next = "fallback"
                            THEN Append(Tail(redisQueue), Command(c, n, "fallback"))
                            ELSE Tail(redisQueue)
    /\ UNCHANGED <<stream, nPublish, calls, streamBy>>

PubInit ==
    /\ stream = <<>>
    /\ pubsub = <<>>
    /\ redisQueue = <<>>
    /\ call = [c \in Callers |-> IdleCall]
    /\ nPublish = 0
    /\ calls = <<>>
    /\ streamBy = <<>>
    /\ pubsubBy = <<>>

(***************************************************************************)
(* EventBus.                                                               *)
(***************************************************************************)
Channels == {AI_RESULT_CHANNEL, "ch2"}
Handlers == {"h1", "h2", "h3"}
Throwers == {"h1", "h2"}      \* handlers that may throw when called
None     == "none"

\* What arrives on the subscriber connection as a "message" payload.
\* The text of a message on the subscriber connection. A JSON text is the sequence of
\* its "key":value pairs, as JSON.stringify writes them; Malformed is a text that is not
\* JSON.
NoText     == <<>>
WellFormed == <<<<"progress", 75>>>>     \* {"progress":75}
Malformed  == <<<<"{not json">>>>
InboundPayloads == {WellFormed, Malformed}

SyntaxError == "SyntaxError: Unexpected token"

\* The members whose value is an object.
ObjectMembers == {"component", "props"}

\* The object a JSON text denotes.
RECURSIVE ParseObject(_)
ParseObject(text) ==
    [k \in {text[i][1] : i \in DOMAIN text} |->
        LET v == text[CHOOSE i \in DOMAIN text : text[i][1] = k][2] IN
        IF k \in ObjectMembers THEN ParseObject(v) ELSE v]

\* JSON.parse
JSONparse_Lenient(payload) == Returned([raw |-> payload])

JSONparse(payload) ==
    IF payload = Malformed THEN Thrown(SyntaxError) ELSE Returned(ParseObject(payload))

NoEvent == [none |-> None]

\* An absent key of this.handlers, and a key holding a Set. A JavaScript Set keeps
\* insertion order, which forEach follows.
NoSet == [has |-> FALSE, set |-> <<>>]
SetOf(s) == [has |-> TRUE, set |-> s]

\* The handlers registered for a channel.
Registered(c) == Range(handlers[c].set)

\* Set.prototype.add
SetAdd(s, h) == IF h \in Range(s) THEN s ELSE Append(s, h)

\* Set.prototype.delete
SetDelete(s, h) == SelectSeq(s, LAMBDA x : x # h)

NoDispatch ==
    [count |-> 0, active |-> FALSE, channel |-> None, payload |-> NoText, event |-> NoEvent,
     snapshot |-> {},
     todo |-> <<>>, invoked |-> <<>>, running |-> None, removed |-> {}, detached |-> FALSE,
     resolving |-> {},
     dropped |-> None,     \* why the message was dropped: "no-handlers", "malformed"
     after |-> None,       \* what happened to the message before this one
     threw |-> {},         \* handlers that threw in this dispatch
     threwBefore |-> {}]   \* handlers that threw in an earlier dispatch

\* A command of the subscriber connection's queue whose reply has arrived while the call
\* that awaits it has not resumed yet.
ContinuationDue == subQueue # <<>> /\ Head(subQueue).reply # None

\* User code runs inside the handler a dispatch is running, at the top level of a task,
\* or as a microtask: the part of an async handler after its first await. The
\* continuation of an answered call is a microtask too, so it runs before any later
\* task, but a microtask that a handler queued earlier in the same read runs before it.
UserCodeRuns ==
    \/ dispatch.running # None
    \/ ~dispatch.active /\ (~ContinuationDue \/ microtasks)

\* What is left of the microtasks of handlers once user code has run: code that runs
\* outside a handler with no continuation due is the last of its task or a task of its own.
AfterUserCode ==
    IF dispatch.running = None /\ ~ContinuationDue THEN FALSE ELSE microtasks

\* The forEach of a dispatch in progress walks the Set its channel had when the message
\* arrived: an entry appended to that Set is visited, an entry deleted before its turn
\* is not. Once the emptied Set has left the map (detached) nothing is added to it.
Walks(c) == dispatch.active /\ dispatch.channel = c /\ ~dispatch.detached

\* A command sent on the subscriber connection by the call (c, h) that awaits its reply.
BusCommand(cmd, c, h) == [cmd |-> cmd, channel |-> c, handler |-> h, reply |-> None]

\* The replies of the transport to a subscribe or unsubscribe command.
SubscriberReplies == {"ok", "error"}

\* The continuation of subscribe() after its transport subscribe (if any):
\* this.handlers.get(channel)!.add(handler), then the closure is returned.
\* Without a Set under the key the call fails with a TypeError. The promise of a call
\* made from inside a handler resolves after the dispatch has left the stack, so its
\* closure reaches the caller only then (resolving).
RegisterHandler_Replay(c, h) ==
    IF handlers[c].has
    THEN /\ handlers' = [handlers EXCEPT ![c].set = SetAdd(@, h)]
         /\ closures' = IF dispatch.active THEN closures ELSE closures \cup {<<c, h>>}
         /\ UNCHANGED failed
         /\ dispatch' = [dispatch EXCEPT
                !.todo = IF Walks(c) /\ h \notin Range(handlers[c].set)
                         THEN Append(@, h) ELSE @,
                !.resolving = IF dispatch.active THEN @ \cup {<<c, h>>} ELSE @,
                !.invoked = IF dispatch.dropped = "no-handlers" /\ dispatch.channel = c
                            THEN Append(@, h) ELSE @]
    ELSE /\ failed' = failed \cup {<<c, h>>}
         /\ UNCHANGED <<handlers, closures, dispatch>>

RegisterHandler(c, h) ==
    IF handlers[c].has
    THEN /\ handlers' = [handlers EXCEPT ![c].set = SetAdd(@, h)]
         /\ closures' = IF dispatch.active THEN closures ELSE closures \cup {<<c, h>>}
         /\ UNCHANGED failed
         /\ dispatch' = [dispatch EXCEPT
                !.todo = IF Walks(c) /\ h \notin Range(handlers[c].set)
                         THEN Append(@, h) ELSE @,
                !.resolving = IF dispatch.active THEN @ \cup {<<c, h>>} ELSE @]
    ELSE /\ failed' = failed \cup {<<c, h>>}
         /\ UNCHANGED <<handlers, closures, dispatch>>

\* subscribe(channel, handler) up to its first await. With the key present the whole
\* call runs without suspending; otherwise the key gets a new Set and the call
\* suspends on this.subscriber.subscribe(channel).
SubscribeIssues(c) == ~handlers[c].has

Subscribe(c, h) ==
    /\ UserCodeRuns
    /\ nBusOps < MaxBusOps
    /\ nBusOps' = nBusOps + 1
    /\ IF SubscribeIssues(c)
       THEN /\ handlers' = [handlers EXCEPT ![c] = IF handlers[c].has THEN @ ELSE SetOf(<<>>)]
            /\ subQueue' = Append(subQueue, BusCommand("subscribe", c, h))
            /\ nSubscribe' = [nSubscribe EXCEPT ![c] = @ + 1]
            /\ UNCHANGED <<closures, failed, dispatch>>
       ELSE /\ RegisterHandler(c, h)
            /\ UNCHANGED <<subQueue, nSubscribe>>
    /\ microtasks' = AfterUserCode
    /\ UNCHANGED <<subscribed, refused, nUnsubscribe>>

\* The closure returned by subscribe(channel, handler), up to its await: the handler
\* leaves the Set, and an emptied Set leaves the map and the transport.
UnsubscribeIssues_Always(c, h) == TRUE

UnsubscribeIssues(c, h) == Len(SetDelete(handlers[c].set, h)) = 0

Unsubscribe(c, h) ==
    /\ <<c, h>> \in closures
    /\ UserCodeRuns
    /\ nBusOps < MaxBusOps
    /\ nBusOps' = nBusOps + 1
    /\ IF ~handlers[c].has
       THEN UNCHANGED <<handlers, subQueue, nUnsubscribe, dispatch>>
       ELSE /\ dispatch' = IF Walks(c)
                           THEN [dispatch EXCEPT !.todo = SetDelete(@, h),
                                                 !.removed = @ \cup {h},
                                                 !.detached = UnsubscribeIssues(c, h)]
                           ELSE dispatch
            /\ IF UnsubscribeIssues(c, h)
               THEN /\ handlers' = [handlers EXCEPT ![c] = NoSet]
                    /\ subQueue' = Append(subQueue, BusCommand("unsubscribe", c, h))
                    /\ nUnsubscribe' = [nUnsubscribe EXCEPT ![c] = @ + 1]
               ELSE /\ handlers' = [handlers EXCEPT ![c].set = SetDelete(@, h)]
                    /\ UNCHANGED <<subQueue, nUnsubscribe>>
    /\ microtasks' = AfterUserCode
    /\ UNCHANGED <<subscribed, closures, failed, refused, nSubscribe>>

\* The reply to the oldest unanswered command arrives on the subscriber connection.
\* An acknowledged command takes effect on the connection's subscriptions at once; the
\* call that awaits the reply resumes later (Resume), after whatever else the same read
\* of the socket delivers.
SubscriberReply(reply) ==
    /\ \E j \in DOMAIN subQueue : subQueue[j].reply = None
    /\ ~dispatch.active
    /\ LET i == CHOOSE j \in DOMAIN subQueue :
                    /\ subQueue[j].reply = None
                    /\ \A k \in 1..(j - 1) : subQueue[k].reply # None
           q == subQueue[i]
       IN  /\ subQueue' = [subQueue EXCEPT ![i].reply = reply]
           /\ subscribed' = IF reply # "ok" THEN subscribed
                            ELSE IF q.cmd = "subscribe" THEN subscribed \cup {q.channel}
                            ELSE subscribed \ {q.channel}
    /\ UNCHANGED <<handlers, closures, failed, refused, microtasks, dispatch,
                   nSubscribe, nUnsubscribe, nBusOps>>

\* The call that awaited the command at the head of the queue resumes with its reply.
\* subscribe() after an acknowledged SUBSCRIBE adds its handler and returns the closure;
\* after a refused one the await throws and the call rejects, with the Set it put under
\* the key left there. The closure's await of UNSUBSCRIBE is its last statement.
\* No continuation runs while a dispatch is on the stack.
Resume ==
    /\ ContinuationDue
    /\ ~dispatch.active
    /\ subQueue' = Tail(subQueue)
    /\ LET q == Head(subQueue) IN
       IF q.reply = "ok" /\ q.cmd = "subscribe"
       THEN /\ RegisterHandler(q.channel, q.handler)
            /\ UNCHANGED refused
       ELSE /\ refused' = IF q.reply = "ok" THEN refused
                          ELSE refused \cup {<<q.cmd, q.channel, q.handler>>}
            /\ UNCHANGED <<handlers, closures, failed, dispatch>>
    \* with the last continuation the microtask queue of the task is empty
    /\ microtasks' = IF Len(subQueue) > 1 /\ subQueue[2].reply # None THEN microtasks ELSE FALSE
    /\ UNCHANGED <<subscribed, nSubscribe, nUnsubscribe, nBusOps>>

\* subscriber.on("message"): a message of a subscribed channel arrives. Without
\* handlers it is dropped (the test comes before the payload is parsed); a payload
\* JSON.parse rejects is logged and dropped; otherwise forEach starts on the channel's Set.
OnMessage(c, payload) ==
    /\ c \in subscribed
    /\ ~dispatch.active
    /\ nBusOps < MaxBusOps
    /\ nBusOps' = nBusOps + 1
    /\ LET arrived == [NoDispatch EXCEPT !.count = dispatch.count + 1, !.channel = c,
                                         !.payload = payload, !.after = dispatch.dropped,
                                         !.threwBefore = dispatch.threwBefore \cup dispatch.threw]
       IN  dispatch' =
             IF ~handlers[c].has \/ Len(handlers[c].set) = 0
             THEN [arrived EXCEPT !.dropped = "no-handlers"]
             ELSE IF ~JSONparse(payload).ok
             THEN [arrived EXCEPT !.dropped = "malformed"]
             ELSE [arrived EXCEPT !.active = TRUE, !.snapshot = Registered(c),
                                  !.event = JSONparse(payload).value,
                                  !.todo = handlers[c].set]
    /\ UNCHANGED <<handlers, subQueue, subscribed, closures, failed, refused, microtasks,
                   nSubscribe, nUnsubscribe>>

\* What is left of the walk after the handler that was running threw: the catch inside
\* the forEach callback logs the error, and forEach goes on with the next entry.
AfterThrow_Abort(todo) == <<>>

AfterThrow(todo) == todo

\* forEach moves on: the handler that was running has returned or thrown (threw), and
\* the next entry's handler is called, or the walk is over.
InvokeNext(threw) ==
    /\ dispatch.active
    /\ threw => dispatch.running \in Throwers
    /\ LET todo == IF threw THEN AfterThrow(dispatch.todo) ELSE dispatch.todo
           thrown == IF threw THEN dispatch.threw \cup {dispatch.running} ELSE dispatch.threw
       IN  IF todo = <<>>
           THEN /\ dispatch' = [dispatch EXCEPT !.active = FALSE, !.running = None,
                                                !.resolving = {}, !.todo = <<>>,
                                                !.threw = thrown]
                /\ closures' = closures \cup dispatch.resolving
           ELSE /\ dispatch' = [dispatch EXCEPT !.running = Head(todo),
                                                !.invoked = Append(@, Head(todo)),
                                                !.todo = Tail(todo),
                                                !.threw = thrown]
                /\ UNCHANGED closures
    /\ microtasks' = (microtasks \/ dispatch'.running # None)
    /\ UNCHANGED <<handlers, subQueue, subscribed, failed, refused,
                   nSubscribe, nUnsubscribe, nBusOps>>

BusInit ==
    /\ handlers = [c \in Channels |-> NoSet]
    /\ subQueue = <<>>
    /\ subscribed = {}
    /\ closures = {}
    /\ dispatch = NoDispatch
    /\ failed = {}
    /\ refused = {}
    /\ microtasks = FALSE
    /\ nSubscribe = [c \in Channels |-> 0]
    /\ nUnsubscribe = [c \in Channels |-> 0]
    /\ nBusOps = 0

(***************************************************************************)
(* RedisManager.                                                           *)
(***************************************************************************)
Hosts     == {"localhost"}
Ports     == {6379}
Passwords == {"secret"}
Usernames == {"gravity"}
Dbs       == {0, 1}

\* RedisOptions: host and port, with or without password, username and db.
RedisOptionsSet ==
    [host : Hosts, port : Ports]
    \cup [host : Hosts, port : Ports, password : Passwords]
    \cup [host : Hosts, port : Ports, username : Usernames]
    \cup [host : Hosts, port : Ports, db : Dbs]
    \cup [host : Hosts, port : Ports, password : Passwords, db : Dbs]
    \cup [host : Hosts, port : Ports, username : Usernames, db : Dbs]

\* options.db || 0
DbOrZero(options) == IF "db" \in DOMAIN options THEN options.db ELSE 0

\* options.username || ""
UsernameOrEmpty(options) == IF "username" \in DOMAIN options THEN options.username ELSE ""

getConnectionKey_NoDb(options) ==
    options.host \o ":" \o ToString(options.port) \o ":" \o UsernameOrEmpty(options)

getConnectionKey(options) ==
    options.host \o ":" \o ToString(options.port) \o ":" \o ToString(DbOrZero(options))
        \o ":" \o UsernameOrEmpty(options)

\* The module state the acquire functions read and write.
PoolState ==
    [standard |-> standardConnections, pubsub |-> pubsubConnections, created |-> created]

\* new Redis(config): a connection distinct from every earlier one.
Fresh(st) == Len(st.created) + 1

\* getStandardConnection(options): the state it leaves and the connection it returns.
getStandardConnection_NoCheck(options, st) ==
    LET key == getConnectionKey(options) IN
    [st     |-> [st EXCEPT !.standard = [k \in DOMAIN @ \cup {key} |->
                                            IF k = key THEN Fresh(st) ELSE @[k]],
                           !.created = Append(@, [key |-> key, pool |-> "standard"])],
     handle |-> Fresh(st)]

getStandardConnection(options, st) ==
    LET key == getConnectionKey(options) IN
    IF key \notin DOMAIN st.standard
    THEN [st     |-> [st EXCEPT !.standard = @ @@ (key :> Fresh(st)),
                                !.created = Append(@, [key |-> key, pool |-> "standard"])],
          handle |-> Fresh(st)]
    ELSE [st |-> st, handle |-> st.standard[key]]

\* getPubSubConnection(options)
getPubSubConnection_Shared(options, st) == getStandardConnection(options, st)

getPubSubConnection(options, st) ==
    LET key == getConnectionKey(options) IN
    IF key \notin DOMAIN st.pubsub
    THEN [st     |-> [st EXCEPT !.pubsub = @ @@ (key :> Fresh(st)),
                                !.created = Append(@, [key |-> key, pool |-> "pubsub"])],
          handle |-> Fresh(st)]
    ELSE [st |-> st, handle |-> st.pubsub[key]]

SetPoolState(st) ==
    /\ standardConnections' = st.standard
    /\ pubsubConnections' = st.pubsub
    /\ created' = st.created

\* A call site acquires a standard-mode connection. The function has no await: it runs
\* to completion before any other call site's code.
AcquireStandard(options) ==
    /\ nAcquire < MaxAcquire
    /\ nAcquire' = nAcquire + 1
    /\ LET r == getStandardConnection(options, PoolState) IN
       /\ SetPoolState(r.st)
       /\ acquired' = acquired \cup {[options |-> options, pool |-> "standard", handle |-> r.handle]}
    /\ UNCHANGED <<buses, subscriberMode>>

\* A call site acquires a subscribe-mode connection.
AcquirePubSub(options) ==
    /\ nAcquire < MaxAcquire
    /\ nAcquire' = nAcquire + 1
    /\ LET r == getPubSubConnection(options, PoolState) IN
       /\ SetPoolState(r.st)
       /\ acquired' = acquired \cup {[options |-> options, pool |-> "pubsub", handle |-> r.handle]}
    /\ UNCHANGED <<buses, subscriberMode>>

\* new EventBus(options, serviceId): a Publisher on the standard connection, then the
\* subscriber connection.
NewEventBus(options) ==
    /\ nAcquire < MaxAcquire
    /\ nAcquire' = nAcquire + 1
    /\ LET p == getStandardConnection(options, PoolState)
           q == getPubSubConnection(options, p.st)
       IN  /\ SetPoolState(q.st)
           /\ buses' = Append(buses, [publisher |-> p.handle, subscriber |-> q.handle])
           /\ acquired' = acquired \cup
                  {[options |-> options, pool |-> "standard", handle |-> p.handle],
                   [options |-> options, pool |-> "pubsub", handle |-> q.handle]}
    /\ UNCHANGED subscriberMode

\* EventBus.subscribe on a channel without handlers: this.subscriber.subscribe(channel)
\* puts the bus's subscriber connection into subscribe mode.
EnterSubscribeMode(b) ==
    /\ b \in DOMAIN buses
    /\ buses[b].subscriber \notin subscriberMode
    /\ subscriberMode' = subscriberMode \cup {buses[b].subscriber}
    /\ UNCHANGED <<standardConnections, pubsubConnections, created, acquired, buses, nAcquire>>

PoolInit ==
    /\ standardConnections = <<>>
    /\ pubsubConnections = <<>>
    /\ created = <<>>
    /\ acquired = {}
    /\ buses = <<>>
    /\ subscriberMode = {}
    /\ nAcquire = 0

(***************************************************************************)
(* RedisManager.closeAllConnections.                                       *)
(***************************************************************************)
\* The entries a forEach over one pool visits: (client, key).
PoolEntries(pool, name) ==
    {[handle |-> pool[k], pool |-> name, key |-> k] : k \in DOMAIN pool}

\* The options of the call sites that run alongside closeAllConnections: two keys.
CloseOptionsSet == [host : Hosts, port : Ports, db : Dbs]

PendingQuits(h) == IF h \in DOMAIN quits THEN quits[h] ELSE <<>>

\* Map.delete(key)
MapDelete(pool, key) == [k \in DOMAIN pool \ {key} |-> pool[k]]

\* await Promise.all(closePromises): fulfilled once every promise is, with no promise
\* to wait for it is fulfilled at once.
PromiseAll(waiting) == IF waiting = {} THEN "resolved" ELSE "awaiting"

\* closeAllConnections() up to its await: client.quit() on every connection of both
\* pools, each with a continuation that deletes the connection's key. A quit() on a
\* connection that has already ended is rejected at once ("Connection is closed."), and
\* with it the Promise.all.
CloseAllStart ==
    /\ Len(closeCalls) < MaxClose
    /\ LET n == Len(closeCalls) + 1
           targets == PoolEntries(standardConnections, "standard")
                          \cup PoolEntries(pubsubConnections, "pubsub")
           clients == {t.handle : t \in targets}
           live    == clients \ closed
           target(h) == CHOOSE t \in targets : t.handle = h
       IN  /\ quits' = [h \in DOMAIN quits \cup live |->
                           IF h \in live
                           THEN Append(PendingQuits(h),
                                       [call |-> n, pool |-> target(h).pool, key |-> target(h).key])
                           ELSE quits[h]]
           /\ closeCalls' = Append(closeCalls,
                  [pc |-> IF live # clients THEN "rejected" ELSE PromiseAll(clients),
                   clients |-> clients, waiting |-> live])
    /\ UNCHANGED <<poolVars, closed>>

\* The server answers the first QUIT sent on a connection with OK and closes the
\* connection. The continuation of that quit() deletes the key; the connection ends and
\* every command still awaiting a reply on it is rejected ("Connection is closed."),
\* which rejects the Promise.all of the call that issued it.
QuitReply(h) ==
    /\ PendingQuits(h) # <<>>
    /\ h \notin closed
    /\ LET first == Head(quits[h])
           flushed == {Tail(quits[h])[i].call : i \in DOMAIN Tail(quits[h])}
       IN  /\ standardConnections' = IF first.pool = "standard"
                                     THEN MapDelete(standardConnections, first.key)
                                     ELSE standardConnections
           /\ pubsubConnections' = IF first.pool = "pubsub"
                                   THEN MapDelete(pubsubConnections, first.key)
                                   ELSE pubsubConnections
           /\ closeCalls' = [n \in DOMAIN closeCalls |->
                  IF n = first.call /\ closeCalls[n].pc = "awaiting"
                  THEN [closeCalls[n] EXCEPT !.waiting = @ \ {h},
                                             !.pc = PromiseAll(closeCalls[n].waiting \ {h})]
                  ELSE IF n \in flushed
                  THEN [closeCalls[n] EXCEPT !.waiting = @ \ {h}, !.pc = "rejected"]
                  ELSE closeCalls[n]]
    /\ closed' = closed \cup {h}
    /\ quits' = [quits EXCEPT ![h] = <<>>]
    /\ UNCHANGED <<created, acquired, buses, subscriberMode, nAcquire>>

CloseInit ==
    /\ closed = {}
    /\ quits = <<>>
    /\ closeCalls = <<>>

(***************************************************************************)
(* Envelope builders.                                                      *)
(***************************************************************************)
\* TYPE_TO_TYPENAME: Record<MessageType, string>
TYPE_TO_TYPENAME ==
    ("TEXT" :> "Text") @@ ("MESSAGE_CHUNK" :> "MessageChunk") @@ ("JSON_DATA" :> "JsonData")
    @@ ("ACTION_SUGGESTION" :> "ActionSuggestion") @@ ("METADATA" :> "Metadata")
    @@ ("IMAGE_RESPONSE" :> "ImageResponse") @@ ("TOOL_OUTPUT" :> "ToolOutput")
    @@ ("AUDIO_CHUNK" :> "AudioChunk") @@ ("STATE" :> "State")
    @@ ("SYSTEM_MESSAGE" :> "SystemMessage") @@ ("PROGRESS_UPDATE" :> "ProgressUpdate")
    @@ ("CARD" :> "Card") @@ ("QUESTIONS" :> "Questions")
    @@ ("NODE_EXECUTION_EVENT" :> "NodeExecutionEvent")

IdFields      == {"chatId", "conversationId", "userId"}
PartialFields == IdFields \cup {"providerId", "id", "metadata"}

\* What a caller may put in a field of the partial envelope; metadata is a
\* Record<string, any>, so it is either undefined or an object.
PartialValues(k) ==
    IF k = "metadata" THEN {Undefined, k \o "-1"} ELSE {Undefined, "", k \o "-1"}

\* Partial<BaseMessage>: any subset of the fields, each with one of its values.
Partials ==
    UNION {{f \in [S -> UNION {PartialValues(k) : k \in S}] :
               \A k \in S : f[k] \in PartialValues(k)} : S \in SUBSET PartialFields}

RequiredError == "chatId, conversationId, and userId are required"
Uuid == "uuid()"                          \* a value uuid() returns
Now  == "new Date().toISOString()"        \* a value the clock returns
DateNow == "Date.now()"


\* BasePublisher.createBaseMessage(partial)
createBaseMessage_Defaulting(p) ==
    Returned([id             |-> OrElse(Get(p, "id"), Uuid),
              chatId         |-> OrElse(Get(p, "chatId"), ""),
              conversationId |-> OrElse(Get(p, "conversationId"), ""),
              userId         |-> OrElse(Get(p, "userId"), ""),
              providerId     |-> OrElse(Get(p, "providerId"), ProviderId),
              timestamp      |-> OrElse(Get(p, "timestamp"), Now),
              type           |-> OrElse(Get(p, "type"), "TEXT")])

createBaseMessage(p) ==
    IF Not(Get(p, "chatId")) \/ Not(Get(p, "conversationId")) \/ Not(Get(p, "userId"))
    THEN Thrown(RequiredError)
    ELSE Returned([id             |-> OrElse(Get(p, "id"), Uuid),
                   chatId         |-> p.chatId,
                   conversationId |-> p.conversationId,
                   userId         |-> p.userId,
                   providerId     |-> OrElse(Get(p, "providerId"), ProviderId),
                   timestamp      |-> OrElse(Get(p, "timestamp"), Now),
                   type           |-> OrElse(Get(p, "type"), "TEXT")])

\* Publisher.createBaseMessage(partial), the builder of the legacy Publisher class. It
\* and the exported createBaseMessage take MessageType from shared/types, where
\* MessageType.TEXT is "text"; BasePublisher takes it from types.ts, where it is "TEXT".
PublisherCreateBaseMessage(p) ==
    IF Not(Get(p, "chatId")) \/ Not(Get(p, "conversationId")) \/ Not(Get(p, "userId"))
    THEN Thrown(RequiredError)
    ELSE Returned([chatId         |-> p.chatId,
                   conversationId |-> p.conversationId,
                   userId         |-> p.userId,
                   providerId     |-> OrElse(Get(p, "providerId"), ProviderId),
                   timestamp      |-> OrElse(Get(p, "timestamp"), Now),
                   state          |-> OrElse(Get(p, "state"), "ACTIVE"),
                   type           |-> OrElse(Get(p, "type"), "text")])

\* createBaseMessage(overrides) exported by types.ts
TypesCreateBaseMessage(p) ==
    Returned([chatId         |-> OrElse(Get(p, "chatId"), ""),
              conversationId |-> OrElse(Get(p, "conversationId"), ""),
              userId         |-> OrElse(Get(p, "userId"), ""),
              providerId     |-> OrElse(Get(p, "providerId"), ""),
              timestamp      |-> OrElse(Get(p, "timestamp"), Now),
              state          |-> OrElse(Get(p, "state"), "IDLE"),
              type           |-> OrElse(Get(p, "type"), "text")])

\* createBaseEvent(overrides) exported by types.ts
createBaseEvent(p) ==
    Returned([id             |-> OrElse(Get(p, "id"), Uuid),
              chatId         |-> OrElse(Get(p, "chatId"), ""),
              conversationId |-> OrElse(Get(p, "conversationId"), ""),
              userId         |-> OrElse(Get(p, "userId"), ""),
              providerId     |-> OrElse(Get(p, "providerId"), ""),
              timestamp      |-> OrElse(Get(p, "timestamp"), DateNow),
              state          |-> OrElse(Get(p, "state"), "IDLE")])

Builders == {"BasePublisher.createBaseMessage", "Publisher.createBaseMessage",
             "createBaseMessage", "createBaseEvent"}

Build(b, p) ==
    CASE b = "BasePublisher.createBaseMessage" -> createBaseMessage(p)
      [] b = "Publisher.createBaseMessage"     -> PublisherCreateBaseMessage(p)
      [] b = "createBaseMessage"               -> TypesCreateBaseMessage(p)
      [] b = "createBaseEvent"                 -> createBaseEvent(p)

NoEnvelope == [builder |-> None]

\* A call of one of the builders with the partial envelope.
BuildEnvelope(b) ==
    /\ envelope = NoEnvelope
    /\ envelope' = [builder |-> b, result |-> Build(b, partial)]
    /\ UNCHANGED partial

EnvInit ==
    /\ partial = <<>>
    /\ envelope = NoEnvelope

(***************************************************************************)
(* Typed publishers: build the message, then BasePublisher.publish.        *)
(***************************************************************************)
\* { ...a, ...b }
Spread(a, b) == [k \in DOMAIN a \cup DOMAIN b |-> IF k \in DOMAIN b THEN b[k] ELSE a[k]]

TypedMethods == {"publishText", "publishNodeCompletion", "publishProgressUpdate"}

\* The baseMessage argument: complete, or lacking one of the correlation ids.
TypedBases ==
    {[chatId |-> "chatId-1", conversationId |-> "conversationId-1", userId |-> "userId-1"],
     [chatId |-> "chatId-1", userId |-> "userId-1"],
     [conversationId |-> "conversationId-1", userId |-> "userId-1"],
     [chatId |-> "chatId-1", conversationId |-> "conversationId-1", userId |-> ""]}

TypedOptionsSet == {[useStream |-> TRUE], [channel |-> CustomChannel]}

\* TextPublisher.publishText(text, baseMessage, options): the message handed to publish
publishTextMessage(base) ==
    LET b == createBaseMessage(base) IN
    IF b.ok THEN Returned(Spread(b.value, [__typename |-> "Text", text |-> "hi"])) ELSE b

\* NodeExecutionPublisher.publishNodeCompletion(..., baseMessage, options): the
\* nodeExecutionEvent handed to publish (of its members the model keeps nodeId, state
\* and timestamp).
publishNodeCompletionMessage(base) ==
    Returned(Spread(base, [__typename |-> "NodeExecutionEvent", nodeId |-> "node-1",
                           state |-> "COMPLETED", timestamp |-> Now]))

\* The arguments message and progress of publishProgressUpdate.
ProgressText  == "Processing data..."
ProgressValue == 75

\* ProgressPublisher.publishProgressUpdate(message, progress, baseMessage, options): the
\* progressUpdate handed to publish
publishProgressUpdateMessage(base) ==
    LET b == createBaseMessage(base) IN
    IF b.ok
    THEN Returned(Spread(b.value,
            [__typename |-> "ProgressUpdate",
             component  |-> [type  |-> "ProgressUpdate",
                             props |-> [message  |-> ProgressText,
                                        progress |-> ProgressValue]]]))
    ELSE b

TypedMessage(method, base) ==
    IF method = "publishText" THEN publishTextMessage(base)
    ELSE IF method = "publishProgressUpdate" THEN publishProgressUpdateMessage(base)
    ELSE publishNodeCompletionMessage(base)

\* A call of a typed publisher method up to its first await. An exception of the
\* envelope builder ends the call before publish() is reached.
TypedPublish(c, method, base, options) ==
    LET m == TypedMessage(method, base) IN
    IF m.ok
    THEN PublishStart(c, m.value, options)
    ELSE /\ CallCompleted(call[c].pc)
         /\ nPublish < MaxPublish
         /\ nPublish' = nPublish + 1
         /\ calls' = Append(calls, [caller |-> c, channel |-> None])
         /\ call' = [call EXCEPT ![c] = [IdleCall EXCEPT !.pc = "threw", !.message = base]]
         /\ UNCHANGED <<stream, pubsub, redisQueue, streamBy, pubsubBy>>

(***************************************************************************)
(* BatchPublisher.                                                         *)
(***************************************************************************)
\* Sequences over S of length at most n.
SeqsUpTo(S, n) == UNION {[1..k -> S] : k \in 0..n}

BatchMessages ==
    {[__typename |-> "Text", chatId |-> "c1", conversationId |-> "v1", userId |-> "u1", text |-> "m1"],
     [__typename |-> "Text", chatId |-> "c1", conversationId |-> "v1", userId |-> "u1", text |-> "m2"],
     [__typename |-> "Text", chatId |-> "c1", conversationId |-> Undefined, userId |-> "u1", text |-> "m1"],
     [__typename |-> "Text", chatId |-> "c1", conversationId |-> "v1", userId |-> "u1", text |-> Circular]}

\* BatchMessage: { message, channel? }
BatchItems ==
    {[message |-> m] : m \in BatchMessages}
        \cup {[message |-> m, channel |-> CustomChannel] : m \in {x \in BatchMessages : x.text = "m1"}}

BatchChannels == {Undefined, "batch:channel"}
Chunks == {"a", "b"}

NoArgs == [none |-> None]

\* The batch call: its position, its arguments, the commands queued on its pipeline,
\* those not yet answered, and the replies so far.
NoBatch ==
    [pc |-> "idle", method |-> None, args |-> NoArgs, commands |-> <<>>, pending |-> <<>>,
     results |-> <<>>]

CircularError == "Converting circular structure to JSON"

\* The commands a batch method queues on its pipeline, in order; an exception while one
\* of them is built ends the call before pipeline.exec().
\* publishBatch: channel || defaultChannel || message.conversationId || 'gravity:output'
publishBatchCommands(items, defaultChannel) ==
    IF \E i \in DOMAIN items : ~Serializable(items[i].message) THEN Thrown(CircularError)
    ELSE Returned([i \in DOMAIN items |->
            PublishArgs(OrElse(Get(items[i], "channel"),
                               OrElse(defaultChannel,
                                      OrElse(Get(items[i].message, "conversationId"),
                                             "gravity:output"))),
                        items[i].message)])

publishBatchToChannelCommands(messages, channel) ==
    IF \E i \in DOMAIN messages : ~Serializable(messages[i]) THEN Thrown(CircularError)
    ELSE Returned([i \in DOMAIN messages |-> PublishArgs(channel, messages[i])])

\* publishStreamingBatch: channel || baseMessage.conversationId || 'gravity:output'
publishStreamingBatchCommands(chunks, base, channel) ==
    LET b == createBaseMessage(base) IN
    IF ~b.ok THEN b
    ELSE Returned([i \in DOMAIN chunks |->
            PublishArgs(OrElse(channel, OrElse(Get(base, "conversationId"), "gravity:output")),
                        Spread(b.value, [__typename |-> "MessageChunk", text |-> chunks[i]]))])

\* A batch method up to `await pipeline.exec()`: an empty input returns at once, an
\* exception while the pipeline is built ends the call with nothing sent, otherwise the
\* whole pipeline is written to the connection.
BatchStart(method, args, empty, commands) ==
    /\ batch.pc = "idle"
    /\ batch' = IF empty
                THEN [NoBatch EXCEPT !.pc = "returned", !.method = method, !.args = args]
                ELSE IF ~commands.ok
                THEN [NoBatch EXCEPT !.pc = "threw", !.method = method, !.args = args]
                ELSE [NoBatch EXCEPT !.pc = "exec", !.method = method, !.args = args,
                                     !.commands = commands.value, !.pending = commands.value]
    /\ UNCHANGED pubVars

PublishBatch(items, defaultChannel) ==
    BatchStart("publishBatch", [messages |-> items, defaultChannel |-> defaultChannel],
               items = <<>>, publishBatchCommands(items, defaultChannel))

PublishBatchToChannel(messages, channel) ==
    BatchStart("publishBatchToChannel", [messages |-> messages, channel |-> channel],
               messages = <<>>,
               publishBatchToChannelCommands(messages, channel))

PublishStreamingBatch(chunks, base, channel) ==
    BatchStart("publishStreamingBatch",
               [chunks |-> chunks, baseMessage |-> base, channel |-> channel], chunks = <<>>,
               publishStreamingBatchCommands(chunks, base, channel))

\* pipeline.exec() is fulfilled with the array of [err, result] pairs once every command
\* has been answered, whatever the pairs hold; the batch methods do not read the array.
ExecSettles(results) == "returned"

\* The reply to the next command of the pipeline. The server runs every command of a
\* pipeline; a failed command does not stop those behind it.
PipelineReply(reply) ==
    /\ batch.pc = "exec"
    /\ batch.pending # <<>>
    /\ pubsub' = IF reply = "ok" THEN Append(pubsub, Head(batch.pending)) ELSE pubsub
    /\ LET results == Append(batch.results, reply) IN
       batch' = [batch EXCEPT !.pending = Tail(@), !.results = results,
                              !.pc = IF Tail(batch.pending) = <<>>
                                     THEN ExecSettles(results) ELSE @]
    /\ UNCHANGED <<stream, redisQueue, call, nPublish, calls, streamBy, pubsubBy>>

BatchInit == batch = NoBatch

(***************************************************************************)
(* Singleton publisher getters (getTextPublisher, getProgressPublisher,    *)
(* getBatchPublisher, getSystemPublisher).                                 *)
(***************************************************************************)
Kinds == {"Text", "Progress", "Batch", "System"}

\* The getters whose credential test also accepts a token.
TokenKinds == {"System"}

\* What a call site may pass for each positional parameter; a parameter left out is
\* absent from the record (username and tls are left out by every call).
GetterPorts == {0, 6379}
GetterDbs   == {1}

GetterArgValues ==
    [host |-> {"localhost"}, password |-> {"", "secret"},
     providerId |-> {"svc-a", "svc-b"}, token |-> {"tok"}]

GetterParams(kind) ==
    {"host", "password", "providerId"}
        \cup (IF kind \in TokenKinds THEN {"token"} ELSE {})

GetterArgsNoPort(kind) ==
    UNION {{a \in [S -> UNION {GetterArgValues[k] : k \in S}] :
               \A k \in S : a[k] \in GetterArgValues[k]} : S \in SUBSET GetterParams(kind)}

GetterArgs(kind) ==
    GetterArgsNoPort(kind)
        \cup {Spread(a, [port |-> p]) : a \in GetterArgsNoPort(kind), p \in GetterPorts}
        \cup {Spread(a, [port |-> p, db |-> d]) :
                 a \in GetterArgsNoPort(kind), p \in GetterPorts, d \in GetterDbs}

\* !a.k for a parameter of the getter
Missing(a, k) ==
    IF k \notin DOMAIN a THEN TRUE
    ELSE IF k = "port" THEN a[k] = 0
    ELSE Not(a[k])

\* The test each getter makes before it constructs.
MissingParams_NoCredential(kind, a) ==
    Missing(a, "host") \/ Missing(a, "port") \/ Missing(a, "providerId")

MissingParams(kind, a) ==
    \/ Missing(a, "host")
    \/ Missing(a, "port")
    \/ IF kind \in TokenKinds
       THEN "password" \notin DOMAIN a /\ Missing(a, "token")
       ELSE "password" \notin DOMAIN a
    \/ Missing(a, "providerId")

GetterError(kind) ==
    kind \o "Publisher requires host, port, "
         \o (IF kind \in TokenKinds THEN "password/token" ELSE "password")
         \o ", and providerId on first call"

\* getOptionsFromConfig(host, port, username, password): username and password are kept
\* only when truthy.
getOptionsFromConfig(a) ==
    LET kept == {"host", "port"} \cup {k \in {"username", "password"} : ~Missing(a, k)} IN
    [k \in kept |-> a[k]]

NoInstance == [has |-> FALSE]

\* if (!instance): whether the getter answers from the cache.
UseCached_SameProvider(inst, a) ==
    inst.has /\ (Missing(a, "providerId") \/ a.providerId = inst.providerId)

UseCached(inst, a) == inst.has

NoGet == [kind |-> None]

\* get<Kind>Publisher(host, port, password, providerId, username, db, ...). On the first
\* complete call Publisher.fromConfig builds the options (it does not pass db on), the
\* Publisher constructor takes the pooled standard connection, and the new instance is
\* stored in the module variable.
GetPublisher(kind, a) ==
    /\ nGet < MaxGet
    /\ nGet' = nGet + 1
    /\ IF UseCached(instances[kind], a)
       THEN /\ lastGet' = [kind |-> kind, args |-> a, cachedBefore |-> TRUE,
                           outcome |-> Returned(instances[kind])]
            /\ UNCHANGED <<instances, getThrew, standardConnections, pubsubConnections, created>>
       ELSE IF MissingParams(kind, a)
       THEN /\ lastGet' = [kind |-> kind, args |-> a, cachedBefore |-> instances[kind].has,
                           outcome |-> Thrown(GetterError(kind))]
            /\ getThrew' = getThrew \cup {kind}
            /\ UNCHANGED <<instances, standardConnections, pubsubConnections, created>>
       ELSE LET r    == getStandardConnection(getOptionsFromConfig(a), PoolState)
                inst == [has |-> TRUE, id |-> nGet + 1, redis |-> r.handle,
                         providerId |-> a.providerId]
            IN /\ SetPoolState(r.st)
               /\ instances' = [instances EXCEPT ![kind] = inst]
               /\ lastGet' = [kind |-> kind, args |-> a, cachedBefore |-> instances[kind].has,
                              outcome |-> Returned(inst)]
               /\ UNCHANGED getThrew
    /\ UNCHANGED <<acquired, buses, subscriberMode, nAcquire>>

SingletonInit ==
    /\ instances = [k \in Kinds |-> NoInstance]
    /\ lastGet = NoGet
    /\ nGet = 0
    /\ getThrew = {}

(***************************************************************************)
(* Reconnect policy of a pooled connection (createConfig).                 *)
(***************************************************************************)
RetryStep == 50
RetryCap  == 2000

Min(a, b) == IF a <= b THEN a ELSE b

\* retryStrategy: (times) => Math.min(times * 50, 2000)
retryStrategy_NoCap(t) == t * RetryStep

retryStrategy(t) == Min(t * RetryStep, RetryCap)

\* The connection is lost once more: the client counts the attempt and asks
\* retryStrategy how long to wait before it.
Reconnect ==
    /\ times < MaxAttempts
    /\ times' = times + 1
    /\ delays' = Append(delays, retryStrategy(times + 1))

RetryInit == times = 0 /\ delays = <<>>

(***************************************************************************)
(* From a typed publisher to the handlers of an EventBus on one transport. *)
(***************************************************************************)
\* The handlers that subscribe (one that may throw, one that does not), the publisher
\* methods the call site uses, and its baseMessage arguments: with the three
\* correlation ids.
TripHandlers == {"h1", "h3"}
TripMethods == {"publishText", "publishProgressUpdate"}
TripBases == {b \in TypedBases : \A k \in IdFields : ~Not(Get(b, k))}

\* A call of a typed publisher method by the call site, with the message it built.
TripPublish(method, base, options) ==
    /\ TypedPublish(1, method, base, options)
    /\ sent' = Append(sent, [method |-> method, ok |-> TypedMessage(method, base).ok,
                             message |-> call'[1].message])
    /\ UNCHANGED <<inbox, received, nEvents, served>>

SYSTEM_CHANNEL == "gravity:system"

\* The payloads handed to EventBus.publish, publishEvent and publishSystem.
EventPayloads == {[progress |-> 75]}

\* Publisher.publishEvent(eventType, payload): this.redis.publish(eventType,
\* JSON.stringify(payload)) on the standard connection. The payload goes out as it is:
\* no envelope, no stream entry, no second attempt.
PublishEvent(eventType, payload) ==
    /\ nEvents < MaxEvents
    /\ nEvents' = nEvents + 1
    /\ redisQueue' = Append(redisQueue,
            [caller |-> 0, n |-> 0, cmd |-> "event", channel |-> eventType,
             message |-> JSONmembers(payload, PropsOrder)])
    /\ UNCHANGED <<stream, pubsub, call, nPublish, calls, streamBy, pubsubBy>>
    /\ UNCHANGED <<inbox, received, sent, served>>

\* Publisher.publishSystem(message): the same on SYSTEM_CHANNEL.
PublishSystem(message) == PublishEvent(SYSTEM_CHANNEL, message)

\* EventBus.publish(channel, payload): await this.publisher.publishEvent(channel, payload)
BusPublish(channel, payload) == PublishEvent(channel, payload)

\* The reply to the PUBLISH of publishEvent at the head of the connection's queue. A
\* rejection rejects the call; nothing else follows from it.
EventReply(reply) ==
    /\ redisQueue # <<>>
    /\ Head(redisQueue).cmd = "event"
    /\ redisQueue' = Tail(redisQueue)
    /\ pubsub' = IF reply = "ok"
                 THEN Append(pubsub, [channel |-> Head(redisQueue).channel,
                                      message |-> Head(redisQueue).message])
                 ELSE pubsub
    /\ pubsubBy' = IF reply = "ok" THEN Append(pubsubBy, 0) ELSE pubsubBy
    /\ UNCHANGED <<stream, call, nPublish, calls, streamBy>>

\* The server carries out the oldest PUBLISH on the publisher's connection that it has
\* not run yet: it hands the message to the connections that are subscribed to its
\* channel at that moment and sends its reply, which the publisher reads later.
Broadcast(reply) ==
    /\ Len(served) < Len(redisQueue)
    /\ LET q == redisQueue[Len(served) + 1] IN
       /\ q.cmd \in {"publish", "fallback", "event"}
       /\ LET msg == IF q.cmd = "event"
                     THEN [channel |-> q.channel, message |-> q.message]
                     ELSE PublishArgs(call[q.caller].channel, call[q.caller].message)
          IN  inbox' = IF reply = "ok" /\ msg.channel \in subscribed
                       THEN Append(inbox, msg)
                       ELSE inbox
    /\ served' = Append(served, reply)
    /\ UNCHANGED <<received, sent, nEvents>>

\* The reply to the PUBLISH at the head of the queue is read on the publisher's
\* connection, and the call that awaits it goes on.
PublishAnswered(reply) ==
    /\ served # <<>>
    /\ Head(served) = reply
    /\ PublishReply(reply) \/ EventReply(reply)
    /\ served' = Tail(served)
    /\ UNCHANGED <<inbox, received, sent, nEvents>>

\* The subscriber connection emits "message" for the next message it was handed.
Deliver ==
    /\ inbox # <<>>
    /\ OnMessage(Head(inbox).channel, Head(inbox).message)
    /\ inbox' = Tail(inbox)
    /\ UNCHANGED <<received, sent, nEvents, served>>

\* forEach moves on; a handler that is called is handed the parsed event.
HandlerCalled(threw) ==
    /\ InvokeNext(threw)
    /\ received' = IF Len(dispatch'.invoked) > Len(dispatch.invoked)
                   THEN Append(received, [handler |-> dispatch'.running,
                                          event |-> dispatch.event])
                   ELSE received
    /\ UNCHANGED <<inbox, sent, nEvents, served>>

TripInit == inbox = <<>> /\ received = <<>> /\ sent = <<>> /\ nEvents = 0 /\ served = <<>>

(***************************************************************************)
(* Publisher and EventBus objects and the pooled connections they hold.    *)
(***************************************************************************)
\* this.redis = null as any
NullRef == 0

\* quit() issued by an object on its connection, with no continuation on the pool.
ObjectQuit == [call |-> 0, pool |-> None, key |-> ""]

\* A command sent on the connection can still be carried out: the connection has not
\* ended and no QUIT is ahead of the command.
Usable(h) == h \notin closed /\ PendingQuits(h) = <<>>

\* The arguments the getter calls of these runs pass: all of them, or none.
LifeKinds == {"Text", "Progress"}
LifeGetterArgs ==
    {[host |-> "localhost", port |-> 6379, password |-> "secret", providerId |-> p] :
        p \in GetterArgValues.providerId}
    \cup {[k \in {} |-> ""]}

\* new Publisher(options, providerId)
NewPublisher(options) ==
    /\ nAcquire < MaxAcquire
    /\ nAcquire' = nAcquire + 1
    /\ LET r == getStandardConnection(options, PoolState) IN
       /\ SetPoolState(r.st)
       /\ publishers' = Append(publishers, [redis |-> r.handle])
    /\ UNCHANGED <<acquired, buses, subscriberMode>>

\* Publisher.disconnect()
PublisherDisconnect_Quit(p) ==
    /\ p \in DOMAIN publishers
    /\ publishers[p].redis # NullRef
    /\ LET h == publishers[p].redis IN
       quits' = [k \in DOMAIN quits \cup {h} |->
                    IF k = h THEN Append(PendingQuits(h), ObjectQuit) ELSE quits[k]]
    /\ publishers' = [publishers EXCEPT ![p].redis = NullRef]
    /\ UNCHANGED <<poolVars, closed, closeCalls>>

PublisherDisconnect(p) ==
    /\ p \in DOMAIN publishers
    /\ publishers' = [publishers EXCEPT ![p].redis = NullRef]
    /\ UNCHANGED <<poolVars, closeVars>>

\* EventBus.disconnect(): Promise.all([this.publisher.disconnect(), this.subscriber.quit()]).
\* The bus's Publisher drops its reference; QUIT is sent on the subscriber connection,
\* unless that connection has already ended (the quit() is then rejected at once).
\* Nothing in the call depends on an earlier call: each one sends its own QUIT.
BusDisconnect(b) ==
    /\ b \in DOMAIN buses
    /\ \/ buses[b].subscriber \in closed
       \/ Len(SelectSeq(PendingQuits(buses[b].subscriber), LAMBDA q : q = ObjectQuit))
             < MaxDisconnect
    /\ buses' = [buses EXCEPT ![b].publisher = NullRef]
    /\ LET h == buses[b].subscriber IN
       quits' = IF h \in closed THEN quits
                ELSE [k \in DOMAIN quits \cup {h} |->
                         IF k = h THEN Append(PendingQuits(h), ObjectQuit) ELSE quits[k]]
    /\ UNCHANGED <<standardConnections, pubsubConnections, created, acquired,
                   subscriberMode, nAcquire, closed, closeCalls, publishers>>

LifeInit == publishers = <<>>

(***************************************************************************)
(* EventBus instances that share one pooled subscriber connection.         *)
(***************************************************************************)
\* The instances: constructed with the same options, getPubSubConnection hands both
\* the same connection.
SharedBuses    == {1, 2}
SharedChannels == {AI_RESULT_CHANNEL}
SharedHandlers == {"h1", "h2"}

\* How the server answers a SUBSCRIBE or UNSUBSCRIBE.
WireReplies == {"ok", "error"}

WireCommand(cmd, b, c, h) ==
    [cmd |-> cmd, bus |-> b, channel |-> c, handler |-> h, reply |-> None]
Closure(b, c, h) == [bus |-> b, channel |-> c, handler |-> h]

\* The handlers instance b has registered for channel c.
RegisteredOf(b, c) == Range(handlersOf[b][c].set)

\* subscribe(channel, handler) of instance b up to its first await.
SharedSubscribe(b, c, h) ==
    /\ nShared < MaxShared
    /\ nShared' = nShared + 1
    /\ IF ~handlersOf[b][c].has
       THEN /\ handlersOf' = [handlersOf EXCEPT ![b][c] = SetOf(<<>>)]
            /\ wireQueue' = Append(wireQueue, WireCommand("subscribe", b, c, h))
            /\ UNCHANGED issued
       ELSE /\ handlersOf' = [handlersOf EXCEPT ![b][c].set = SetAdd(@, h)]
            /\ issued' = Append(issued, Closure(b, c, h))
            /\ UNCHANGED wireQueue
    /\ UNCHANGED <<wire, invokedClosures, rejected>>

\* The closure at position i of issued is invoked, up to its await.
SharedUnsubscribe(i) ==
    /\ i \in DOMAIN issued
    /\ nShared < MaxShared
    /\ nShared' = nShared + 1
    /\ invokedClosures' = invokedClosures \cup {i}
    /\ LET b == issued[i].bus
           c == issued[i].channel
           h == issued[i].handler
       IN  IF ~handlersOf[b][c].has
           THEN UNCHANGED <<handlersOf, wireQueue>>
           ELSE IF Len(SetDelete(handlersOf[b][c].set, h)) = 0
           THEN /\ handlersOf' = [handlersOf EXCEPT ![b][c] = NoSet]
                /\ wireQueue' = Append(wireQueue, WireCommand("unsubscribe", b, c, h))
           ELSE /\ handlersOf' = [handlersOf EXCEPT ![b][c].set = SetDelete(@, h)]
                /\ UNCHANGED wireQueue
    /\ UNCHANGED <<wire, issued, rejected>>

\* The reply to the oldest unanswered command arrives on the shared connection: an
\* acknowledged command takes effect on the connection's subscriptions at once, the call
\* that awaits the reply resumes later (WireResume).
WireReply(reply) ==
    /\ \E j \in DOMAIN wireQueue : wireQueue[j].reply = None
    /\ LET i == CHOOSE j \in DOMAIN wireQueue :
                    /\ wireQueue[j].reply = None
                    /\ \A k \in 1..(j - 1) : wireQueue[k].reply # None
           q == wireQueue[i]
       IN  /\ wireQueue' = [wireQueue EXCEPT ![i].reply = reply]
           /\ wire' = IF reply # "ok" THEN wire
                      ELSE IF q.cmd = "subscribe" THEN wire \cup {q.channel}
                      ELSE wire \ {q.channel}
    /\ UNCHANGED <<handlersOf, issued, invokedClosures, rejected, nShared>>

\* The call that awaited the command at the head of the queue resumes with its reply.
\* After an acknowledged SUBSCRIBE the call adds its handler to the Set under the key (a
\* TypeError without one) and returns its closure; after a refused one the await throws,
\* nothing after it runs, and the Set made before it stays under the key.
WireResume ==
    /\ wireQueue # <<>>
    /\ Head(wireQueue).reply # None
    /\ wireQueue' = Tail(wireQueue)
    /\ LET q == Head(wireQueue) IN
       IF q.cmd = "subscribe"
       THEN IF q.reply = "ok"
            THEN IF handlersOf[q.bus][q.channel].has
                 THEN /\ handlersOf' = [handlersOf EXCEPT
                             ![q.bus][q.channel].set = SetAdd(@, q.handler)]
                      /\ issued' = Append(issued, Closure(q.bus, q.channel, q.handler))
                      /\ UNCHANGED rejected
                 ELSE /\ rejected' = rejected \cup {Closure(q.bus, q.channel, q.handler)}
                      /\ UNCHANGED <<handlersOf, issued>>
            ELSE /\ rejected' = rejected \cup {Closure(q.bus, q.channel, q.handler)}
                 /\ UNCHANGED <<handlersOf, issued>>
       ELSE UNCHANGED <<handlersOf, issued, rejected>>
    /\ UNCHANGED <<wire, invokedClosures, nShared>>

SharedInit ==
    /\ handlersOf = [b \in SharedBuses |-> [c \in SharedChannels |-> NoSet]]
    /\ wire = {}
    /\ wireQueue = <<>>
    /\ issued = <<>>
    /\ invokedClosures = {}
    /\ rejected = {}
    /\ nShared = 0

(***************************************************************************)
(* Specifications: one per component.                                      *)
(***************************************************************************)
Init ==
    /\ PubInit /\ BusInit /\ PoolInit /\ CloseInit /\ EnvInit /\ BatchInit
    /\ SingletonInit /\ RetryInit /\ TripInit /\ LifeInit /\ SharedInit

NextPublish ==
    \/ \E c \in Callers, m \in PublishMessages, o \in PublishOptionsSet :
          PublishStart(c, m, o) /\ UNCHANGED <<busVars, poolVars, closeVars, envVars, batchVars, singletonVars, retryVars, tripVars, lifeVars, sharedVars>>
    \/ \E r \in XaddReplies : XaddReply(r) /\ UNCHANGED <<busVars, poolVars, closeVars, envVars, batchVars, singletonVars, retryVars, tripVars, lifeVars, sharedVars>>
    \/ \E r \in PublishReplies : PublishReply(r) /\ UNCHANGED <<busVars, poolVars, closeVars, envVars, batchVars, singletonVars, retryVars, tripVars, lifeVars, sharedVars>>

SpecPublish == Init /\ [][NextPublish]_vars

NextEventBus ==
    \/ \E c \in Channels, h \in Handlers : Subscribe(c, h) /\ UNCHANGED <<pubVars, poolVars, closeVars, envVars, batchVars, singletonVars, retryVars, tripVars, lifeVars, sharedVars>>
    \/ \E c \in Channels, h \in Handlers : Unsubscribe(c, h) /\ UNCHANGED <<pubVars, poolVars, closeVars, envVars, batchVars, singletonVars, retryVars, tripVars, lifeVars, sharedVars>>
    \/ SubscriberReply("ok") /\ UNCHANGED <<pubVars, poolVars, closeVars, envVars, batchVars, singletonVars, retryVars, tripVars, lifeVars, sharedVars>>
    \/ Resume /\ UNCHANGED <<pubVars, poolVars, closeVars, envVars, batchVars, singletonVars, retryVars, tripVars, lifeVars, sharedVars>>
    \/ \E c \in Channels, p \in InboundPayloads :
          OnMessage(c, p) /\ UNCHANGED <<pubVars, poolVars, closeVars, envVars, batchVars, singletonVars, retryVars, tripVars, lifeVars, sharedVars>>
    \/ \E t \in BOOLEAN : InvokeNext(t) /\ UNCHANGED <<pubVars, poolVars, closeVars, envVars, batchVars, singletonVars, retryVars, tripVars, lifeVars, sharedVars>>

SpecEventBus == Init /\ [][NextEventBus]_vars

\* The same EventBus on a transport that may refuse a command.
NextBusRefusal ==
    \/ \E c \in Channels, h \in Handlers : Subscribe(c, h) /\ UNCHANGED <<pubVars, poolVars, closeVars, envVars, batchVars, singletonVars, retryVars, tripVars, lifeVars, sharedVars>>
    \/ \E c \in Channels, h \in Handlers : Unsubscribe(c, h) /\ UNCHANGED <<pubVars, poolVars, closeVars, envVars, batchVars, singletonVars, retryVars, tripVars, lifeVars, sharedVars>>
    \/ \E r \in SubscriberReplies : SubscriberReply(r) /\ UNCHANGED <<pubVars, poolVars, closeVars, envVars, batchVars, singletonVars, retryVars, tripVars, lifeVars, sharedVars>>
    \/ Resume /\ UNCHANGED <<pubVars, poolVars, closeVars, envVars, batchVars, singletonVars, retryVars, tripVars, lifeVars, sharedVars>>
    \/ \E c \in Channels, p \in InboundPayloads :
          OnMessage(c, p) /\ UNCHANGED <<pubVars, poolVars, closeVars, envVars, batchVars, singletonVars, retryVars, tripVars, lifeVars, sharedVars>>
    \/ \E t \in BOOLEAN : InvokeNext(t) /\ UNCHANGED <<pubVars, poolVars, closeVars, envVars, batchVars, singletonVars, retryVars, tripVars, lifeVars, sharedVars>>

SpecBusRefusal == Init /\ [][NextBusRefusal]_vars

\* The same EventBus used by callers that await each subscribe() and each unsubscribe
\* closure before making the next call: a call starts only when none is suspended.
NextEventBusAwaited ==
    \/ \E c \in Channels, h \in Handlers :
          subQueue = <<>> /\ Subscribe(c, h) /\ UNCHANGED <<pubVars, poolVars, closeVars, envVars, batchVars, singletonVars, retryVars, tripVars, lifeVars, sharedVars>>
    \/ \E c \in Channels, h \in Handlers :
          subQueue = <<>> /\ Unsubscribe(c, h) /\ UNCHANGED <<pubVars, poolVars, closeVars, envVars, batchVars, singletonVars, retryVars, tripVars, lifeVars, sharedVars>>
    \/ SubscriberReply("ok") /\ UNCHANGED <<pubVars, poolVars, closeVars, envVars, batchVars, singletonVars, retryVars, tripVars, lifeVars, sharedVars>>
    \/ Resume /\ UNCHANGED <<pubVars, poolVars, closeVars, envVars, batchVars, singletonVars, retryVars, tripVars, lifeVars, sharedVars>>
    \/ \E c \in Channels, p \in InboundPayloads :
          OnMessage(c, p) /\ UNCHANGED <<pubVars, poolVars, closeVars, envVars, batchVars, singletonVars, retryVars, tripVars, lifeVars, sharedVars>>
    \/ \E t \in BOOLEAN : InvokeNext(t) /\ UNCHANGED <<pubVars, poolVars, closeVars, envVars, batchVars, singletonVars, retryVars, tripVars, lifeVars, sharedVars>>

SpecEventBusAwaited == Init /\ [][NextEventBusAwaited]_vars

NextPool ==
    \/ \E o \in RedisOptionsSet : AcquireStandard(o) /\ UNCHANGED <<pubVars, busVars, closeVars, envVars, batchVars, singletonVars, retryVars, tripVars, lifeVars, sharedVars>>
    \/ \E o \in RedisOptionsSet : AcquirePubSub(o) /\ UNCHANGED <<pubVars, busVars, closeVars, envVars, batchVars, singletonVars, retryVars, tripVars, lifeVars, sharedVars>>
    \/ \E o \in RedisOptionsSet : NewEventBus(o) /\ UNCHANGED <<pubVars, busVars, closeVars, envVars, batchVars, singletonVars, retryVars, tripVars, lifeVars, sharedVars>>
    \/ \E b \in DOMAIN buses : EnterSubscribeMode(b) /\ UNCHANGED <<pubVars, busVars, closeVars, envVars, batchVars, singletonVars, retryVars, tripVars, lifeVars, sharedVars>>

SpecPool == Init /\ [][NextPool]_vars

\* The pools with closeAllConnections: call sites acquire connections and close them all,
\* in any interleaving the event loop allows.
NextPoolClose ==
    \/ \E o \in CloseOptionsSet :
          AcquireStandard(o) /\ UNCHANGED <<pubVars, busVars, closeVars, envVars, batchVars, singletonVars, retryVars, tripVars, lifeVars, sharedVars>>
    \/ \E o \in CloseOptionsSet :
          AcquirePubSub(o) /\ UNCHANGED <<pubVars, busVars, closeVars, envVars, batchVars, singletonVars, retryVars, tripVars, lifeVars, sharedVars>>
    \/ CloseAllStart /\ UNCHANGED <<pubVars, busVars, envVars, batchVars, singletonVars, retryVars, tripVars, lifeVars, sharedVars>>
    \/ \E h \in DOMAIN quits : QuitReply(h) /\ UNCHANGED <<pubVars, busVars, envVars, batchVars, singletonVars, retryVars, tripVars, lifeVars, sharedVars>>

SpecPoolClose == Init /\ [][NextPoolClose]_vars

\* The envelope builders applied to every partial envelope.
InitEnvelope ==
    /\ PubInit /\ BusInit /\ PoolInit /\ CloseInit /\ BatchInit
    /\ SingletonInit /\ RetryInit /\ TripInit /\ LifeInit /\ SharedInit
    /\ partial \in Partials
    /\ envelope = NoEnvelope

NextEnvelope ==
    \E b \in Builders : BuildEnvelope(b) /\ UNCHANGED <<pubVars, busVars, poolVars, closeVars, batchVars, singletonVars, retryVars, tripVars, lifeVars, sharedVars>>

SpecEnvelope == InitEnvelope /\ [][NextEnvelope]_vars

\* The delivery engine driven through the typed publisher methods.
NextTyped ==
    \/ \E c \in Callers, t \in TypedMethods, b \in TypedBases, o \in TypedOptionsSet :
          TypedPublish(c, t, b, o) /\ UNCHANGED <<busVars, poolVars, closeVars, envVars, batchVars, singletonVars, retryVars, tripVars, lifeVars, sharedVars>>
    \/ \E r \in XaddReplies : XaddReply(r) /\ UNCHANGED <<busVars, poolVars, closeVars, envVars, batchVars, singletonVars, retryVars, tripVars, lifeVars, sharedVars>>
    \/ \E r \in PublishReplies : PublishReply(r) /\ UNCHANGED <<busVars, poolVars, closeVars, envVars, batchVars, singletonVars, retryVars, tripVars, lifeVars, sharedVars>>

SpecTyped == Init /\ [][NextTyped]_vars

\* One batch call and the replies to its pipeline.
NextBatch ==
    \/ \E items \in SeqsUpTo(BatchItems, MaxBatchLen), d \in BatchChannels :
          PublishBatch(items, d) /\ UNCHANGED <<busVars, poolVars, closeVars, envVars, singletonVars, retryVars, tripVars, lifeVars, sharedVars>>
    \/ \E ms \in SeqsUpTo(BatchMessages, MaxBatchLen), ch \in BatchChannels \ {Undefined} :
          PublishBatchToChannel(ms, ch) /\ UNCHANGED <<busVars, poolVars, closeVars, envVars, singletonVars, retryVars, tripVars, lifeVars, sharedVars>>
    \/ \E cs \in SeqsUpTo(Chunks, MaxBatchLen), b \in TypedBases, ch \in BatchChannels :
          PublishStreamingBatch(cs, b, ch) /\ UNCHANGED <<busVars, poolVars, closeVars, envVars, singletonVars, retryVars, tripVars, lifeVars, sharedVars>>
    \/ \E r \in PublishReplies : PipelineReply(r) /\ UNCHANGED <<busVars, poolVars, closeVars, envVars, singletonVars, retryVars, tripVars, lifeVars, sharedVars>>

SpecBatch == Init /\ [][NextBatch]_vars

\* The singleton getters, called in any order with any arguments.
NextSingleton ==
    \E k \in Kinds : \E a \in GetterArgs(k) :
        GetPublisher(k, a)
        /\ UNCHANGED <<pubVars, busVars, closeVars, envVars, batchVars, retryVars, tripVars, lifeVars, sharedVars>>

SpecSingleton == Init /\ [][NextSingleton]_vars

\* One call site that awaits each of its calls and makes either single publishes or a
\* publishBatch.
NextChannels ==
    \/ \E m \in PublishMessages, o \in PublishOptionsSet :
          /\ batch.pc = "idle"
          /\ PublishStart(1, m, o)
          /\ UNCHANGED <<busVars, poolVars, closeVars, envVars, batchVars, singletonVars, retryVars, tripVars, lifeVars, sharedVars>>
    \/ \E r \in XaddReplies : XaddReply(r) /\ UNCHANGED <<busVars, poolVars, closeVars, envVars, batchVars, singletonVars, retryVars, tripVars, lifeVars, sharedVars>>
    \/ \E r \in PublishReplies : PublishReply(r) /\ UNCHANGED <<busVars, poolVars, closeVars, envVars, batchVars, singletonVars, retryVars, tripVars, lifeVars, sharedVars>>
    \/ \E items \in SeqsUpTo(BatchItems, MaxBatchLen), d \in BatchChannels :
          /\ nPublish = 0
          /\ PublishBatch(items, d)
          /\ UNCHANGED <<busVars, poolVars, closeVars, envVars, singletonVars, retryVars, tripVars, lifeVars, sharedVars>>
    \/ \E r \in PublishReplies : PipelineReply(r) /\ UNCHANGED <<busVars, poolVars, closeVars, envVars, singletonVars, retryVars, tripVars, lifeVars, sharedVars>>

SpecChannels == Init /\ [][NextChannels]_vars

\* Nothing is in progress: no call, no command, no message on its way, no dispatch.
TripSettled ==
    /\ CallCompleted(call[1].pc)
    /\ redisQueue = <<>>
    /\ subQueue = <<>>
    /\ inbox = <<>>
    /\ ~dispatch.active

\* Handlers subscribe on the default channel; when their subscribe() calls have
\* resolved the call site publishes through the typed publishers, awaiting each call,
\* and the transport delivers. While nothing is in progress the call site also sends
\* plain events through the EventBus and the Publisher; it makes MaxPublish calls at
\* most, typed or plain.
NextTrip ==
    \/ \E h \in TripHandlers :
          /\ nPublish = 0 /\ nEvents = 0
          /\ Subscribe(AI_RESULT_CHANNEL, h)
          /\ UNCHANGED <<pubVars, poolVars, closeVars, envVars, batchVars, singletonVars, retryVars, tripVars, lifeVars, sharedVars>>
    \/ SubscriberReply("ok") /\ UNCHANGED <<pubVars, poolVars, closeVars, envVars, batchVars, singletonVars, retryVars, tripVars, lifeVars, sharedVars>>
    \/ Resume /\ UNCHANGED <<pubVars, poolVars, closeVars, envVars, batchVars, singletonVars, retryVars, tripVars, lifeVars, sharedVars>>
    \/ \E p \in EventPayloads :
          /\ TripSettled /\ nPublish + nEvents < MaxPublish
          /\ BusPublish(AI_RESULT_CHANNEL, p)
          /\ UNCHANGED <<busVars, poolVars, closeVars, envVars, batchVars, singletonVars, retryVars, lifeVars, sharedVars>>
    \/ \E p \in EventPayloads :
          /\ TripSettled /\ nPublish + nEvents < MaxPublish
          /\ PublishSystem(p)
          /\ UNCHANGED <<busVars, poolVars, closeVars, envVars, batchVars, singletonVars, retryVars, lifeVars, sharedVars>>
    \/ \E t \in TripMethods, b \in TripBases, o \in TypedOptionsSet :
          /\ subQueue = <<>> /\ redisQueue = <<>> /\ nPublish + nEvents < MaxPublish
          /\ TripPublish(t, b, o)
          /\ UNCHANGED <<busVars, poolVars, closeVars, envVars, batchVars, singletonVars, retryVars, lifeVars, sharedVars>>
    \/ \E r \in XaddReplies : XaddReply(r) /\ UNCHANGED <<busVars, poolVars, closeVars, envVars, batchVars, singletonVars, retryVars, tripVars, lifeVars, sharedVars>>
    \/ \E r \in PublishReplies :
          Broadcast(r)
          /\ UNCHANGED <<pubVars, busVars, poolVars, closeVars, envVars, batchVars, singletonVars, retryVars, lifeVars, sharedVars>>
    \/ \E r \in PublishReplies :
          PublishAnswered(r)
          /\ UNCHANGED <<busVars, poolVars, closeVars, envVars, batchVars, singletonVars, retryVars, lifeVars, sharedVars>>
    \/ Deliver /\ UNCHANGED <<pubVars, poolVars, closeVars, envVars, batchVars, singletonVars, retryVars, lifeVars, sharedVars>>
    \/ \E t \in BOOLEAN :
          HandlerCalled(t)
          /\ UNCHANGED <<pubVars, poolVars, closeVars, envVars, batchVars, singletonVars, retryVars, lifeVars, sharedVars>>

SpecTrip == Init /\ [][NextTrip]_vars

\* The reconnect attempts of one connection.
NextRetry ==
    Reconnect
    /\ UNCHANGED <<pubVars, busVars, poolVars, closeVars, envVars, batchVars, singletonVars, tripVars, lifeVars, sharedVars>>

SpecRetry == Init /\ [][NextRetry]_vars

\* Publisher objects on pooled connections: call sites construct publishers, disconnect
\* them and close all connections, in any interleaving.
NextDisconnect ==
    \/ \E o \in CloseOptionsSet :
          NewPublisher(o) /\ UNCHANGED <<pubVars, busVars, closeVars, envVars, batchVars, singletonVars, retryVars, tripVars, sharedVars>>
    \/ \E p \in DOMAIN publishers :
          PublisherDisconnect(p) /\ UNCHANGED <<pubVars, busVars, envVars, batchVars, singletonVars, retryVars, tripVars, sharedVars>>
    \/ CloseAllStart /\ UNCHANGED <<pubVars, busVars, envVars, batchVars, singletonVars, retryVars, tripVars, lifeVars, sharedVars>>
    \/ \E h \in DOMAIN quits : QuitReply(h) /\ UNCHANGED <<pubVars, busVars, envVars, batchVars, singletonVars, retryVars, tripVars, lifeVars, sharedVars>>

SpecDisconnect == Init /\ [][NextDisconnect]_vars

\* The pools and the ways a pooled connection is closed: call sites acquire
\* connections, construct and disconnect buses, and close all connections.
NextPoolQuit ==
    \/ \E o \in CloseOptionsSet :
          NewEventBus(o) /\ UNCHANGED <<pubVars, busVars, closeVars, envVars, batchVars, singletonVars, retryVars, tripVars, lifeVars, sharedVars>>
    \/ \E b \in DOMAIN buses :
          BusDisconnect(b) /\ UNCHANGED <<pubVars, busVars, envVars, batchVars, singletonVars, retryVars, tripVars, sharedVars>>
    \/ \E o \in CloseOptionsSet :
          AcquireStandard(o) /\ UNCHANGED <<pubVars, busVars, closeVars, envVars, batchVars, singletonVars, retryVars, tripVars, lifeVars, sharedVars>>
    \/ \E o \in CloseOptionsSet :
          AcquirePubSub(o) /\ UNCHANGED <<pubVars, busVars, closeVars, envVars, batchVars, singletonVars, retryVars, tripVars, lifeVars, sharedVars>>
    \/ CloseAllStart /\ UNCHANGED <<pubVars, busVars, envVars, batchVars, singletonVars, retryVars, tripVars, lifeVars, sharedVars>>
    \/ \E h \in DOMAIN quits : QuitReply(h) /\ UNCHANGED <<pubVars, busVars, envVars, batchVars, singletonVars, retryVars, tripVars, lifeVars, sharedVars>>

SpecPoolQuit == Init /\ [][NextPoolQuit]_vars

\* The singleton getters with closeAllConnections.
NextSingletonClose ==
    \/ \E k \in LifeKinds, a \in LifeGetterArgs :
          GetPublisher(k, a) /\ UNCHANGED <<pubVars, busVars, closeVars, envVars, batchVars, retryVars, tripVars, lifeVars, sharedVars>>
    \/ CloseAllStart /\ UNCHANGED <<pubVars, busVars, envVars, batchVars, singletonVars, retryVars, tripVars, lifeVars, sharedVars>>
    \/ \E h \in DOMAIN quits : QuitReply(h) /\ UNCHANGED <<pubVars, busVars, envVars, batchVars, singletonVars, retryVars, tripVars, lifeVars, sharedVars>>

SpecSingletonClose == Init /\ [][NextSingletonClose]_vars

\* Two EventBus instances on one pooled subscriber connection.
NextSharedBus ==
    \/ \E b \in SharedBuses, c \in SharedChannels, h \in SharedHandlers :
          SharedSubscribe(b, c, h) /\ UNCHANGED <<pubVars, busVars, poolVars, closeVars, envVars, batchVars, singletonVars, retryVars, tripVars, lifeVars>>
    \/ \E i \in DOMAIN issued : SharedUnsubscribe(i) /\ UNCHANGED <<pubVars, busVars, poolVars, closeVars, envVars, batchVars, singletonVars, retryVars, tripVars, lifeVars>>
    \/ \E r \in WireReplies : WireReply(r) /\ UNCHANGED <<pubVars, busVars, poolVars, closeVars, envVars, batchVars, singletonVars, retryVars, tripVars, lifeVars>>
    \/ WireResume /\ UNCHANGED <<pubVars, busVars, poolVars, closeVars, envVars, batchVars, singletonVars, retryVars, tripVars, lifeVars>>

SpecSharedBus == Init /\ [][NextSharedBus]_vars

(***************************************************************************)
(* Claims about the delivery engine (checked under SpecPublish).           *)
(***************************************************************************)
\* The call of caller c has put its message on its channel's broadcast.
Delivered(c) ==
    /\ call[c].broadcasts >= 1
    /\ PublishArgs(call[c].channel, call[c].message) \in Range(pubsub)

\* C1: when the append to the stream of a publish fails, the call goes on to the
\* broadcast; if that succeeds the call returns normally with the message broadcast
\* on its channel, and the call throws only if the broadcast failed as well.
C1_AppendFailureNotFatal ==
    \A c \in Callers :
        call[c].xadd = "error" =>
            /\ call[c].pc \in {"fallback", "returned", "threw"}
            /\ call[c].pc = "fallback" =>
                   \E n \in 1..nPublish : Command(c, n, "fallback") \in Range(redisQueue)
            /\ call[c].pc = "threw" => call[c].lastBroadcast = "error"
            /\ call[c].lastBroadcast = "ok" => call[c].pc = "returned" /\ Delivered(c)

C1_Witness ==
    \E c \in Callers :
        /\ call[c].xadd = "error"
        /\ call[c].pc = "returned"
        /\ Delivered(c)

\* C2: a publish call that has thrown had its broadcast statement fail and put nothing
\* on the broadcast channel; a call that has returned has broadcast its message on
\* its channel. No call returns with its message not broadcast.
C2_ThrowsIffBroadcastFailed ==
    \A c \in Callers :
        /\ call[c].pc = "threw" => call[c].lastBroadcast = "error" /\ call[c].broadcasts = 0
        /\ call[c].pc = "returned" => call[c].lastBroadcast = "ok" /\ Delivered(c)

C2_Witness ==
    \E c, d \in Callers :
        /\ call[c].pc = "threw" /\ call[c].xadd = "ok" /\ Serializable(call[c].message)
        /\ call[d].pc = "returned" /\ call[d].xadd = "ok"

\* C3: a call broadcasts nothing before the reply to its XADD, and when a call whose
\* XADD succeeded broadcasts, its entry is already in the stream, with the payload and
\* the channel of the broadcast.
C3_AppendThenBroadcast ==
    /\ [](\A c \in Callers : call[c].pc = "xadd" => call[c].broadcasts = 0)
    /\ [][(/\ redisQueue # <<>>
           /\ Head(redisQueue).cmd \in {"publish", "fallback"}
           /\ Len(pubsub') = Len(pubsub) + 1
           /\ call[Head(redisQueue).caller].xadd = "ok")
          => LET c == Head(redisQueue).caller
                 e == call[c].entryId
             IN  /\ e \in 1..Len(stream)
                 /\ stream[e].message = Last(pubsub').message
                 /\ stream[e].channel = Last(pubsub').channel
                 /\ stream[e].channel = call[c].channel]_vars

C3_Witness ==
    \E c \in Callers :
        /\ call[c].pc = "returned"
        /\ call[c].channel = CustomChannel
        /\ call[c].entryId \in 1..Len(stream)
        /\ stream[call[c].entryId].message = Last(pubsub).message
        /\ stream[call[c].entryId].channel = Last(pubsub).channel

(***************************************************************************)
(* Claims about EventBus (checked under SpecEventBus).                     *)
(***************************************************************************)
\* The commands for channel c the subscriber connection has not answered yet.
Pending(c) == SelectSeq(subQueue, LAMBDA q : q.channel = c /\ q.reply = None)

\* The calls suspended on a command for channel c.
Suspended(c) == SelectSeq(subQueue, LAMBDA q : q.channel = c)

\* Whether the transport is subscribed to c once the queued commands have been answered.
SettlesSubscribed(c) ==
    IF Pending(c) = <<>> THEN c \in subscribed ELSE Last(Pending(c)).cmd = "subscribe"

Quiescent == subQueue = <<>> /\ ~dispatch.active

\* C4: per channel, a transport subscribe is issued only while no handler is registered
\* and no subscription is outstanding; the step that registers the first handler finds
\* exactly one subscription outstanding; a transport unsubscribe is issued exactly in
\* the step that removes the last handler; a step that leaves the channel with
\* handlers before and after issues no transport command.
C4_SubscribeOncePerChannel ==
    [][\A c \in Channels :
        /\ nSubscribe'[c] # nSubscribe[c] =>
              /\ nSubscribe'[c] = nSubscribe[c] + 1
              /\ Registered(c) = {}
              /\ nSubscribe[c] = nUnsubscribe[c]
        /\ nUnsubscribe'[c] # nUnsubscribe[c] =>
              /\ nUnsubscribe'[c] = nUnsubscribe[c] + 1
              /\ Registered(c) # {} /\ Registered(c)' = {}
        /\ (Registered(c) = {} /\ Registered(c)' # {}) =>
              /\ nSubscribe[c] = nUnsubscribe[c] + 1
              /\ nSubscribe'[c] = nSubscribe[c] /\ nUnsubscribe'[c] = nUnsubscribe[c]
        /\ (Registered(c) # {} /\ Registered(c)' = {}) =>
              nUnsubscribe'[c] = nUnsubscribe[c] + 1
        /\ (Registered(c) # {} /\ Registered(c)' # {}) =>
              nSubscribe'[c] = nSubscribe[c] /\ nUnsubscribe'[c] = nUnsubscribe[c]]_vars

\* C5: a channel with a registered handler stays subscribed at the transport (so that
\* removing one of two handlers leaves the other one receiving); a well-formed message
\* arriving for such a channel is dispatched to the handlers registered then; a
\* dispatch calls only handlers that are registered at the moment of the call, and
\* when it ends it has called every handler it started with that was not removed
\* meanwhile; and with no handler left and no call suspended the transport is no
\* longer subscribed to the channel.
C5_RemainingHandlerReceives ==
    /\ [](\A c \in Channels :
            /\ Registered(c) # {} => SettlesSubscribed(c)
            /\ (Registered(c) = {} /\ Suspended(c) = <<>>) => c \notin subscribed)
    /\ [][/\ (dispatch'.count # dispatch.count
              /\ Registered(dispatch'.channel) # {}
              /\ JSONparse(dispatch'.payload).ok)
             => dispatch'.active /\ dispatch'.snapshot = Registered(dispatch'.channel)
          /\ Len(dispatch'.invoked) > Len(dispatch.invoked)
             => Last(dispatch'.invoked) \in Registered(dispatch.channel)
          /\ (dispatch.active /\ ~dispatch'.active)
             => \A h \in dispatch.snapshot :
                   h \in Range(dispatch.invoked) \/ h \in dispatch.removed]_vars

C5_Witness ==
    \E c \in Channels : \E h, g \in Handlers :
        /\ h # g
        /\ {<<c, h>>, <<c, g>>} \subseteq closures
        /\ Registered(c) = {h}
        /\ dispatch.count > 0 /\ ~dispatch.active /\ dispatch.channel = c
        /\ dispatch.invoked = <<h>>
        /\ dispatch.snapshot = {h}

\* C6: no subscribe or unsubscribe call fails inside EventBus, and once no call is
\* suspended the transport is subscribed to a channel exactly if the channel has
\* handlers. (The code violates the first part.)
C6_NoFailureUnderInterleaving ==
    /\ failed = {}
    /\ Quiescent => \A c \in Channels : c \in subscribed <=> Registered(c) # {}

\* C7: a dispatch calls exactly the handlers that were registered when its message
\* arrived, each once. (The code walks the live Set.)
C7_DispatchUsesArrivalSnapshot ==
    /\ Range(dispatch.invoked) \subseteq dispatch.snapshot
    /\ Len(dispatch.invoked) = Cardinality(Range(dispatch.invoked))
    /\ (dispatch.count > 0 /\ ~dispatch.active) => Range(dispatch.invoked) = dispatch.snapshot

(***************************************************************************)
(* Claims about RedisManager (checked under SpecPool).                     *)
(***************************************************************************)
PoolOf(name) == IF name = "standard" THEN standardConnections ELSE pubsubConnections

\* C8: whatever the order in which call sites acquire, no two connections are ever
\* created for the same key and mode, every created connection is the one its pool
\* holds under its key, and every acquire returned the connection pooled under the
\* key of its options.
C8_OneConnectionPerKey ==
    /\ \A i, j \in DOMAIN created :
          (created[i].key = created[j].key /\ created[i].pool = created[j].pool) => i = j
    /\ \A i \in DOMAIN created :
          /\ created[i].key \in DOMAIN PoolOf(created[i].pool)
          /\ PoolOf(created[i].pool)[created[i].key] = i
    /\ \A a \in acquired :
          /\ getConnectionKey(a.options) \in DOMAIN PoolOf(a.pool)
          /\ a.handle = PoolOf(a.pool)[getConnectionKey(a.options)]

C8_Witness ==
    \E a, b \in acquired :
        /\ a.options # b.options
        /\ a.pool = b.pool
        /\ a.handle = b.handle
        /\ Cardinality({i \in DOMAIN created : created[i].pool = a.pool}) = 1

\* Two options objects name the same endpoint parameter.
SameHostPort(o, p) == o.host = p.host /\ o.port = p.port
SameUsername(o, p) ==
    /\ ("username" \in DOMAIN o) = ("username" \in DOMAIN p)
    /\ "username" \in DOMAIN o => o.username = p.username
SameDb(o, p) == DbOrZero(o) = DbOrZero(p)

\* C9: two standard-mode acquires whose options agree on host, port, db (absent
\* counting as 0) and username returned the same connection, whatever their passwords;
\* two that agree on host, port and username and differ in db returned different ones.
C9_SameKeySameHandle ==
    \A a, b \in acquired :
        (a.pool = "standard" /\ b.pool = "standard"
         /\ SameHostPort(a.options, b.options) /\ SameUsername(a.options, b.options))
        => (SameDb(a.options, b.options) <=> a.handle = b.handle)

C9_Witness ==
    \E a, b, c \in acquired :
        /\ a.pool = "standard" /\ b.pool = "standard" /\ c.pool = "standard"
        /\ SameHostPort(a.options, b.options) /\ SameUsername(a.options, b.options)
        /\ "password" \in DOMAIN a.options /\ "password" \notin DOMAIN b.options
        /\ "db" \notin DOMAIN a.options /\ "db" \in DOMAIN b.options
        /\ a.handle = b.handle
        /\ SameHostPort(a.options, c.options) /\ SameUsername(a.options, c.options)
        /\ ~SameDb(a.options, c.options)
        /\ a.handle # c.handle

\* C10: the two pools hold no connection in common, no subscribe-mode acquire
\* returned a connection a standard-mode acquire returned, and no connection in
\* subscribe mode is pooled as standard or held by an EventBus's publisher.
C10_PoolsDisjoint ==
    /\ Range(standardConnections) \cap Range(pubsubConnections) = {}
    /\ \A a, b \in acquired :
          (a.pool = "standard" /\ b.pool = "pubsub") => a.handle # b.handle
    /\ \A h \in subscriberMode :
          /\ h \notin Range(standardConnections)
          /\ \A b \in DOMAIN buses : buses[b].publisher # h

C10_Witness ==
    \E b \in DOMAIN buses : \E k \in DOMAIN standardConnections :
        /\ buses[b].subscriber \in subscriberMode
        /\ k \in DOMAIN pubsubConnections
        /\ standardConnections[k] = buses[b].publisher
        /\ pubsubConnections[k] = buses[b].subscriber

(***************************************************************************)
(* Claims about closeAllConnections (checked under SpecPoolClose).         *)
(***************************************************************************)
Pooled == {standardConnections[k] : k \in DOMAIN standardConnections}
              \cup {pubsubConnections[k] : k \in DOMAIN pubsubConnections}

\* C11: closeAllConnections() drains every connection that was pooled when it was
\* called (on completion none of them is in a pool and each has ended), and it is
\* idempotent: no call of it, made after an earlier call completed or while an earlier
\* call is still in progress, ends with an error.
C11_CloseAllDrainsAndIsIdempotent ==
    \A n \in DOMAIN closeCalls :
        /\ closeCalls[n].pc # "rejected"
        /\ closeCalls[n].pc = "resolved" =>
               \A h \in closeCalls[n].clients : h \in closed /\ h \notin Pooled

(***************************************************************************)
(* Claims about the envelope builders (checked under SpecEnvelope).        *)
(***************************************************************************)
PublisherBuilders == {"BasePublisher.createBaseMessage", "Publisher.createBaseMessage"}

\* C12: for a partial envelope in which chatId, conversationId or userId is absent
\* (or empty), the publisher's envelope builder fails with the missing-correlation
\* error and returns no envelope; with all three present it returns an envelope that
\* carries exactly those three values.
C12_BuilderRequiresCorrelationIds ==
    envelope.builder \in PublisherBuilders =>
        IF \E k \in IdFields : Not(Get(partial, k))
        THEN envelope.result = Thrown(RequiredError)
        ELSE /\ envelope.result.ok
             /\ \A k \in IdFields : envelope.result.value[k] = partial[k]

C12_Witness ==
    /\ envelope.builder = "BasePublisher.createBaseMessage"
    /\ "conversationId" \notin DOMAIN partial
    /\ ~Not(Get(partial, "chatId")) /\ ~Not(Get(partial, "userId"))
    /\ ~envelope.result.ok

\* C14: no envelope-constructing function substitutes a default (such as the empty
\* string) for chatId, conversationId or userId: an envelope that was built carries
\* for each of the three the value its caller supplied.
C14_NoDefaultForCorrelationIds ==
    (envelope.builder # None /\ envelope.result.ok) =>
        \A k \in IdFields :
            /\ ~Not(Get(partial, k))
            /\ envelope.result.value[k] = partial[k]

(***************************************************************************)
(* Claims about the typed publishers (checked under SpecTyped).            *)
(***************************************************************************)
HasIds(m) == \A k \in IdFields : ~Not(Get(m, k))

\* The serialized message has a non-empty member for each correlation id.
JsonHasIds(j) == \A k \in IdFields : \E i \in DOMAIN j : j[i][1] = k /\ j[i][2] # ""

\* C13: a typed publisher method called with a base message that lacks chatId,
\* conversationId or userId fails before any transport operation: a call that has
\* issued a command carries a message with the three ids, and no entry of the stream
\* and no broadcast holds a message without them.
C13_TypedPublishersRejectMissingIds ==
    /\ \A c \in Callers :
           call[c].pc \in {"xadd", "publish", "fallback", "returned"} => HasIds(call[c].message)
    /\ \A i \in DOMAIN stream : JsonHasIds(stream[i].message)
    /\ \A i \in DOMAIN pubsub : JsonHasIds(pubsub[i].message)

(***************************************************************************)
(* Claims about BatchPublisher (checked under SpecBatch).                  *)
(***************************************************************************)
\* C15: a batch call that has returned has put every one of its N messages on the
\* broadcast of its channel, in submission order: the broadcasts are exactly the
\* commands of the batch, none dropped, duplicated or reordered.
C15_BatchDeliversAllInOrder ==
    batch.pc = "returned" => pubsub = batch.commands

\* C16: when a command of a batch fails, the commands behind it are not run and the
\* call ends with an error: a batch call never returns normally with a failed command.
C16_FailedCommandFailsTheBatch ==
    /\ batch.pc = "returned" => "error" \notin Range(batch.results)
    /\ \A i, j \in DOMAIN batch.results :
           (i < j /\ batch.results[i] = "error") => batch.results[j] # "ok"

(***************************************************************************)
(* Per-publisher, per-channel ordering (checked under SpecPublish, where   *)
(* every caller awaits its publish() before making the next one).          *)
(***************************************************************************)
SameCallerChannel(a, b) ==
    calls[a].caller = calls[b].caller /\ calls[a].channel = calls[b].channel

\* Whatever two calls of one caller on one channel have put into a log is in call order.
InCallOrder(by) ==
    \A i, j \in DOMAIN by : (i < j /\ SameCallerChannel(by[i], by[j])) => by[i] <= by[j]

\* C17: when a caller awaits publish(m1) before calling publish(m2) on the same
\* channel, every broadcast of m1 precedes every broadcast of m2 and every stream entry
\* of m1 precedes every stream entry of m2, whatever the outcomes of the two calls.
C17_AwaitedPublishesKeepOrder ==
    InCallOrder(pubsubBy) /\ InCallOrder(streamBy)

C17_Witness ==
    /\ Len(calls) = 2
    /\ SameCallerChannel(1, 2)
    /\ pubsubBy = <<1, 2>>
    /\ streamBy = <<2>>

(***************************************************************************)
(* Claims about the dispatch of inbound messages (checked under            *)
(* SpecEventBus).                                                          *)
(***************************************************************************)
\* C18: a message that arrives for a channel without registered handlers is dropped
\* and not kept: no handler is ever called with it, also not a handler that is
\* registered on the channel afterwards.
C18_NoHandlersMessageDropped ==
    dispatch.dropped = "no-handlers" =>
        /\ ~dispatch.active
        /\ dispatch.todo = <<>>
        /\ dispatch.invoked = <<>>

C18_Witness ==
    /\ dispatch.dropped = "no-handlers"
    /\ Registered(dispatch.channel) # {}

\* C19: a payload that cannot be parsed is dropped: no handler is called with it, the
\* handler registry and the transport subscriptions stay as they were, and the
\* dispatcher goes on: the well-formed message that arrives next is dispatched to every
\* handler registered on its channel.
C19_MalformedPayloadDropped ==
    /\ [](dispatch.payload = Malformed =>
            ~dispatch.active /\ dispatch.todo = <<>> /\ dispatch.invoked = <<>>)
    /\ [][dispatch'.count # dispatch.count =>
            /\ dispatch'.payload = Malformed =>
                  handlers' = handlers /\ subscribed' = subscribed /\ closures' = closures
            /\ (dispatch.dropped = "malformed" /\ dispatch'.payload = WellFormed
                /\ Registered(dispatch'.channel) # {})
               => /\ dispatch'.active
                  /\ dispatch'.todo = handlers[dispatch'.channel].set]_vars

C19_Witness ==
    /\ dispatch.after = "malformed"
    /\ dispatch.payload = WellFormed
    /\ dispatch.count > 0 /\ ~dispatch.active
    /\ dispatch.invoked # <<>>
    /\ Range(dispatch.invoked) = Registered(dispatch.channel)

\* C20: when a handler throws, the other handlers of the channel are still called for
\* the same event (at the end of the walk every handler registered at arrival has been
\* called, unless it was unsubscribed during the walk), the handler that threw stays
\* registered, and a later event is dispatched to all handlers of its channel, the one
\* that threw included.
C20_ThrowingHandlerIsolated ==
    [][/\ (dispatch.active /\ ~dispatch'.active /\ dispatch'.threw # {})
          => \A h \in dispatch.snapshot :
                h \in Range(dispatch'.invoked) \/ h \in dispatch'.removed
       /\ dispatch'.threw # dispatch.threw => handlers' = handlers
       /\ (dispatch'.count # dispatch.count /\ dispatch'.threwBefore # {}
           /\ dispatch'.payload = WellFormed /\ Registered(dispatch'.channel) # {})
          => /\ dispatch'.active
             /\ dispatch'.todo = handlers[dispatch'.channel].set]_vars

C20_Witness ==
    /\ dispatch.count > 0 /\ ~dispatch.active
    /\ Len(dispatch.invoked) >= 2
    /\ dispatch.threw = {dispatch.invoked[1]}
    /\ dispatch.invoked[1] \in dispatch.threwBefore

(***************************************************************************)
(* Claims about the unsubscribe closure (checked under SpecEventBus).      *)
(***************************************************************************)
\* C21: the closure returned by subscribe is idempotent: a call of it made when an
\* earlier call has already removed its handler from the channel ends without error,
\* leaves the handler registry as it was and issues no transport unsubscribe.
C21_UnsubscribeIdempotent ==
    [][\A c \in Channels, h \in Handlers :
          (Unsubscribe(c, h) /\ h \notin Registered(c)) =>
              /\ handlers' = handlers
              /\ subQueue' = subQueue
              /\ nUnsubscribe' = nUnsubscribe
              /\ failed' = failed]_vars

(***************************************************************************)
(* Claims about the singleton getters (checked under SpecSingleton).       *)
(***************************************************************************)
\* The call supplies host, port, a credential and the identity.
FullParams(kind, a) ==
    /\ ~Missing(a, "host")
    /\ ~Missing(a, "port")
    /\ ~Missing(a, "providerId")
    /\ \/ "password" \in DOMAIN a
       \/ kind \in TokenKinds /\ ~Missing(a, "token")

\* C22: a getter call made while its kind has no cached instance and without the full
\* connection parameters ends with the kind's configuration error and leaves the cache
\* empty; made with the full parameters (also after such a failure) it constructs an
\* instance, caches it and returns it.
C22_FirstCallNeedsParams ==
    (lastGet.kind # None /\ ~lastGet.cachedBefore) =>
        IF FullParams(lastGet.kind, lastGet.args)
        THEN /\ lastGet.outcome.ok
             /\ lastGet.outcome.value.has
             /\ lastGet.outcome.value.id = nGet
             /\ lastGet.outcome.value.providerId = lastGet.args.providerId
             /\ instances[lastGet.kind] = lastGet.outcome.value
        ELSE /\ lastGet.outcome = Thrown(GetterError(lastGet.kind))
             /\ instances[lastGet.kind] = NoInstance

\* A complete call has constructed an instance of a kind whose getter had failed before.
C22_Witness ==
    /\ lastGet.kind \in getThrew
    /\ ~lastGet.cachedBefore
    /\ lastGet.outcome.ok
    /\ instances[lastGet.kind].has

\* C23: once a kind has a cached instance, no step changes it, and every getter call
\* for that kind, whatever its arguments, returns that instance and raises nothing.
C23_CachedInstanceIsPermanent ==
    /\ [][\A k \in Kinds : instances[k].has => instances'[k] = instances[k]]_vars
    /\ []((lastGet.kind # None /\ lastGet.cachedBefore) =>
              lastGet.outcome = Returned(instances[lastGet.kind]))

\* A getter with a cached instance was called with another identity, and with no
\* arguments at all.
C23_Witness ==
    /\ lastGet.kind # None
    /\ lastGet.cachedBefore
    /\ "providerId" \in DOMAIN lastGet.args
    /\ lastGet.args.providerId # instances[lastGet.kind].providerId
    /\ lastGet.outcome.ok

\* C24: whenever a kind's instance is cached, some operation of the program is
\* available that empties that kind's cache.
C24_CacheCanBeReset ==
    \A k \in Kinds :
        (instances[k].has /\ nGet < MaxGet) =>
            ENABLED (NextSingleton /\ instances'[k] = NoInstance)


(***************************************************************************)
(* Claims about the reconnect policy (checked under SpecRetry).            *)
(***************************************************************************)
\* C27 as stated: below the cap the delays of consecutive attempts form a geometric
\* progression (each is the previous one times a constant factor), they never decrease
\* and never exceed the cap.
C27_ExponentialBackoff ==
    /\ \A n \in 1..Len(delays) : delays[n] <= RetryCap
    /\ \A n \in 2..Len(delays) : delays[n] >= delays[n - 1]
    /\ \A n \in 2..(Len(delays) - 1) :
          delays[n + 1] < RetryCap =>
              delays[n + 1] * delays[n - 1] = delays[n] * delays[n]

\* C27 amended: the delay of attempt n is 50 ms more than that of attempt n - 1 (50 ms
\* for the first) until it reaches the cap, never decreases and never exceeds 2000 ms.
C27_LinearBackoff ==
    /\ \A n \in 1..Len(delays) : delays[n] <= 2000
    /\ \A n \in 2..Len(delays) : delays[n] >= delays[n - 1]
    /\ \A n \in 1..Len(delays) :
          LET before == IF n = 1 THEN 0 ELSE delays[n - 1] IN
          IF before + 50 < 2000 THEN delays[n] = before + 50 ELSE delays[n] = 2000

\* The attempts have gone past the one that first reaches the cap.
C27_Witness ==
    /\ Len(delays) > 40
    /\ delays[39] = 1950
    /\ delays[40] = 2000
    /\ Last(delays) = 2000


(***************************************************************************)
(* Claims about channel resolution (checked under SpecChannels).           *)
(***************************************************************************)
\* A channel value that names a channel.
Supplied(ch) == ch # Undefined /\ ch # ""

\* C26: a single publish goes to the channel of its options when one is supplied and to
\* the default channel otherwise; each command of a publishBatch goes to the item's own
\* channel when it has one, else to the batch default when one is supplied, else to the
\* message's conversation id, else to the global default.
C26_ChannelResolution ==
    /\ [][\A m \in PublishMessages, o \in PublishOptionsSet :
             PublishStart(1, m, o) =>
                 /\ call'[1].channel = IF Supplied(OptionsChannel(o)) THEN o.channel
                                       ELSE "gravity:output"
                 /\ Last(calls').channel = call'[1].channel]_vars
    /\ [](batch.pc = "exec" =>
            LET items == batch.args.messages
                d     == batch.args.defaultChannel
            IN /\ Len(batch.commands) = Len(items)
               /\ \A i \in DOMAIN items :
                     batch.commands[i].channel =
                         IF "channel" \in DOMAIN items[i] /\ Supplied(items[i].channel)
                         THEN items[i].channel
                         ELSE IF Supplied(d) THEN d
                         ELSE IF Supplied(items[i].message.conversationId)
                         THEN items[i].message.conversationId
                         ELSE "gravity:output")

\* A batch with the default channel given holds an item with a channel of its own and
\* an item without one.
C26_Witness ==
    /\ batch.pc = "exec"
    /\ batch.args.defaultChannel = "batch:channel"
    /\ \E i, j \in DOMAIN batch.commands :
          /\ batch.commands[i].channel = CustomChannel
          /\ batch.commands[j].channel = "batch:channel"

\* A single publish with a channel in its options is in progress.
C26_WitnessSingle ==
    /\ call[1].pc = "xadd"
    /\ call[1].channel = CustomChannel


(***************************************************************************)
(* Batched against single delivery (checked under SpecBatch).              *)
(***************************************************************************)
\* What awaited single publishes of the messages to the channel, one after the other,
\* leave on the transport when every command is answered: one entry in the durable log
\* and one broadcast per message, in call order.
SequentialPublishes(messages, channel) ==
    [stream |-> [i \in DOMAIN messages |-> XaddFields(channel, messages[i])],
     pubsub |-> [i \in DOMAIN messages |-> PublishArgs(channel, messages[i])]]

\* C28: when publishBatchToChannel(messages, channel) has returned and the transport has
\* answered every command, the durable log and the broadcasts are those that awaited
\* single publishes of the same messages to that channel leave, in the same order.
C28_BatchEqualsSequentialPublishes ==
    (/\ batch.method = "publishBatchToChannel"
     /\ batch.pc = "returned"
     /\ batch.args.messages # <<>>
     /\ \A i \in DOMAIN batch.results : batch.results[i] = "ok") =>
        LET single == SequentialPublishes(batch.args.messages, batch.args.channel) IN
        /\ pubsub = single.pubsub
        /\ stream = single.stream


(***************************************************************************)
(* Claims about the publish options and the envelope's kind.               *)
(***************************************************************************)
\* C29: a publish whose options say useStream: false issues no XADD: its first command
\* on the connection is the broadcast.
C29_UseStreamFalseSkipsAppend ==
    [][\A c \in Callers, m \in PublishMessages :
          (PublishStart(c, m, [useStream |-> FALSE]) /\ Serializable(m)) =>
              /\ Last(redisQueue').caller = c
              /\ Last(redisQueue').cmd = "publish"]_vars

\* C30: the message a typed publisher hands to publish has a type, and TYPE_TO_TYPENAME
\* maps it to the message's __typename.
C30_TypeMatchesTypename ==
    \A c \in Callers :
        (call[c].pc # "idle" /\ call[c].channel # Undefined) =>
            /\ "type" \in DOMAIN call[c].message
            /\ call[c].message.type \in DOMAIN TYPE_TO_TYPENAME
            /\ TYPE_TO_TYPENAME[call[c].message.type] = call[c].message.__typename


(***************************************************************************)
(* Claims about the round trip (checked under SpecTrip).                   *)
(***************************************************************************)
Settled == TripSettled

\* The typed publisher calls, in call order, that went to the default channel and that
\* returned normally, that is, broadcast their message.
PublishedToDefault ==
    SelectSeq([n \in 1..Len(sent) |-> n],
              LAMBDA n : /\ sent[n].ok
                         /\ calls[n].channel = AI_RESULT_CHANNEL
                         /\ n \in Range(pubsubBy))

\* The events handler h was called with, in order.
EventsOf(h) ==
    LET mine == SelectSeq(received, LAMBDA r : r.handler = h) IN
    [i \in DOMAIN mine |-> mine[i].event]

\* Those of them that are messages: they carry a discriminant, the payloads of
\* EventBus.publish in these runs carry none.
MessagesOf(h) == SelectSeq(EventsOf(h), LAMBDA e : "__typename" \in DOMAIN e)

KindOf(method) == IF method = "publishText" THEN "Text" ELSE "ProgressUpdate"

\* C25: once everything has settled, a handler subscribed on the default channel has
\* been called exactly once for each message a typed publisher published there without
\* a channel override, in publishing order, with an event equal to the message the
\* publisher built, member by member, and with the __typename of the publisher's kind.
C25_RoundTrip ==
    Settled =>
        \A h \in Registered(AI_RESULT_CHANNEL) :
            LET events == MessagesOf(h)
                ns     == PublishedToDefault
            IN  /\ Len(events) = Len(ns)
                /\ \A i \in DOMAIN ns :
                      /\ events[i] = sent[ns[i]].message
                      /\ events[i].__typename = KindOf(sent[ns[i]].method)

\* A handler has been handed the progress update with progress = 75 of a call that
\* returned, and the payload of an EventBus.publish on the same channel.
C25_Witness ==
    /\ Settled
    /\ call[1].pc = "returned"
    /\ \E i \in DOMAIN received :
          /\ DOMAIN received[i].event = {"progress"}
          /\ received[i].event.progress = 75
    /\ \E i \in DOMAIN received :
          /\ "__typename" \in DOMAIN received[i].event
          /\ received[i].event.__typename = "ProgressUpdate"
          /\ received[i].event.component.props.progress = 75
          /\ received[i].event.conversationId = "conversationId-1"

(***************************************************************************)
(* The partial envelope and the envelope handed on (checked under          *)
(* SpecEnvelope)                                                           *)
(***************************************************************************)

\* The fields of the partial envelope to which the caller gave a value.
SuppliedFields(p) == {k \in DOMAIN p : ~Not(p[k])}

\* C31: every field the caller supplied in the partial envelope appears unchanged in
\* the envelope BasePublisher.createBaseMessage returns, and every other field of that
\* envelope is a default: a generated id, the publisher's configured providerId.
C31_SuppliedFieldsArePreserved ==
    (envelope.builder = "BasePublisher.createBaseMessage" /\ envelope.result.ok) =>
        LET built == envelope.result.value IN
        /\ \A k \in SuppliedFields(partial) :
              k \in DOMAIN built /\ built[k] = partial[k]
        /\ "id" \notin SuppliedFields(partial) => built.id = Uuid
        /\ "providerId" \notin SuppliedFields(partial) => built.providerId = ProviderId

(***************************************************************************)
(* The connection of a publisher built by a singleton getter (checked      *)
(* under SpecSingleton)                                                    *)
(***************************************************************************)

\* The endpoint parameters a getter was given: host, port, username, password, db.
EndpointOptions(a) ==
    LET kept == {"host", "port"} \cup {k \in {"username", "password"} : ~Missing(a, k)}
                    \cup ({"db"} \cap DOMAIN a)
    IN  [k \in kept |-> a[k]]

\* The last call of a getter built a new publisher.
Constructed == lastGet.kind # None /\ lastGet.outcome.ok /\ ~lastGet.cachedBefore

\* C32: the publisher a getter's first successful call builds holds the pooled
\* connection selected by all the endpoint parameters of the call, db included, so
\* that two constructions differing only in db hold different connections.
C32_ConnectionSelectedByDb ==
    Constructed =>
        created[lastGet.outcome.value.redis].key = getConnectionKey(EndpointOptions(lastGet.args))

(***************************************************************************)
(* Publisher.disconnect (checked under SpecDisconnect)                     *)
(***************************************************************************)

\* Publisher q can publish: it refers to a connection, and a command sent on that
\* connection can be carried out.
CanPublish(q) == publishers[q].redis # NullRef /\ Usable(publishers[q].redis)

\* C33: Publisher.disconnect() leaves both pools as they were and leaves the connection
\* the publisher held as usable as it was; every other publisher that could publish
\* before the call can publish after it.
C33_DisconnectLeavesConnection ==
    [][\A p \in DOMAIN publishers :
          PublisherDisconnect(p) =>
              /\ standardConnections' = standardConnections
              /\ pubsubConnections' = pubsubConnections
              /\ Usable(publishers[p].redis) => Usable(publishers[p].redis)'
              /\ \A q \in DOMAIN publishers \ {p} : CanPublish(q) => CanPublish(q)'
      ]_vars

\* Two publishers were built on one pooled connection; the first has disconnected, the
\* connection is still in the pool and the second can publish.
C33_Witness ==
    /\ Len(publishers) = 2 /\ Len(created) = 1
    /\ publishers[1].redis = NullRef
    /\ CanPublish(2)
    /\ \E k \in DOMAIN standardConnections : standardConnections[k] = publishers[2].redis

(***************************************************************************)
(* Acquiring after a quit (checked under SpecPoolQuit)                     *)
(***************************************************************************)

\* C35: an acquire never returns a connection on which QUIT has been issued: whatever
\* EventBus.disconnect() and closeAllConnections() calls came before or are under way,
\* the connection getStandardConnection or getPubSubConnection returns has not ended
\* and has no QUIT awaiting its reply.
C35_AcquireNeverReturnsQuitConnection ==
    [][\A o \in CloseOptionsSet :
          /\ AcquireStandard(o) => Usable(getStandardConnection(o, PoolState).handle)
          /\ AcquirePubSub(o) => Usable(getPubSubConnection(o, PoolState).handle)
      ]_vars

(***************************************************************************)
(* Singleton getters after closeAllConnections (checked under              *)
(* SpecSingletonClose)                                                     *)
(***************************************************************************)

\* No closeAllConnections() call is under way.
CloseAllCompleted == \A n \in DOMAIN closeCalls : closeCalls[n].pc # "awaiting"

\* C36: the publisher a singleton getter returns when no closeAllConnections() is under
\* way, in particular after one has completed, holds a connection that has not ended
\* and on which no QUIT has been issued.
C36_GetterReturnsLivePublisher ==
    [][(nGet' # nGet /\ lastGet'.outcome.ok /\ CloseAllCompleted) =>
          /\ lastGet'.outcome.value.redis \notin closed'
          /\ lastGet'.outcome.value.redis \in DOMAIN quits' =>
                 quits'[lastGet'.outcome.value.redis] = <<>>
      ]_vars

(***************************************************************************)
(* Two EventBus instances on one subscriber connection (checked under      *)
(* SpecSharedBus)                                                          *)
(***************************************************************************)

\* Handler h of instance b is called for the messages published on c.
Receives(b, c, h) == c \in wire /\ h \in RegisteredOf(b, c)

\* The oldest command on the shared connection that has no reply yet.
OldestUnanswered ==
    wireQueue[CHOOSE j \in DOMAIN wireQueue :
                  /\ wireQueue[j].reply = None
                  /\ \A k \in 1..(j - 1) : wireQueue[k].reply # None]

\* C34: the transport subscription of a channel stays active while either instance has
\* a handler registered for it: no step in which one instance's unsubscribe takes
\* effect stops the delivery to a handler of the other instance.
C34_SharedSubscriptionOutlivesOneInstance ==
    [][\A b \in SharedBuses, c \in SharedChannels, h \in SharedHandlers :
          (/\ WireReply("ok")
           /\ OldestUnanswered.cmd = "unsubscribe"
           /\ OldestUnanswered.bus # b
           /\ Receives(b, c, h))
          => Receives(b, c, h)'
      ]_vars

(***************************************************************************)
(* A refused transport subscribe (checked under SpecBusRefusal)            *)
(***************************************************************************)

\* The call resumed by this step is a subscribe() whose SUBSCRIBE was refused.
RefusesSubscribe ==
    /\ Resume
    /\ Head(subQueue).cmd = "subscribe"
    /\ Head(subQueue).reply = "error"

\* A SUBSCRIBE for c that has not been refused is queued on the connection.
SubscribeUnderWay(c) ==
    \E i \in DOMAIN subQueue :
        /\ subQueue[i].cmd = "subscribe"
        /\ subQueue[i].channel = c
        /\ subQueue[i].reply # "error"

\* C37: when the SUBSCRIBE of subscribe(c, h) is refused, the call leaves the instance
\* without a record of c that no handler accounts for and c is not subscribed, and every
\* later subscribe on a channel that has neither a transport subscription nor a SUBSCRIBE
\* under way issues the SUBSCRIBE.
C37_RefusedSubscribeIsUndone ==
    [][/\ RefusesSubscribe =>
            LET q == Head(subQueue) IN
            handlers'[q.channel].has => handlers'[q.channel].set # <<>>
       /\ \A c \in Channels, h \in Handlers :
            (Subscribe(c, h) /\ c \notin subscribed /\ ~SubscribeUnderWay(c))
                => SubscribeUnderWay(c)'
      ]_vars

(***************************************************************************)
(* The promise of subscribe and the transport acknowledgement (checked     *)
(* under SpecEventBus)                                                     *)
(***************************************************************************)

\* C38: when the promise of subscribe(c, h) resolves, that is, when its closure reaches
\* the caller, the transport has acknowledged the subscription of c.
C38_ResolvedSubscribeIsAcknowledged ==
    [][\A x \in closures' \ closures : x[1] \in subscribed']_vars

(***************************************************************************)
(* Invoking an unsubscribe function again (checked under SpecSharedBus)    *)
(***************************************************************************)

\* The closure at position i has been invoked, and a later subscribe call of the same
\* instance for the same channel and handler has returned its own closure since.
Superseded(i) ==
    /\ i \in invokedClosures
    /\ \E j \in DOMAIN issued : j > i /\ issued[j] = issued[i]

\* C39: an unsubscribe function removes only the registration of the subscribe call that
\* returned it: invoked again after the same handler was subscribed anew to the channel,
\* it leaves the instance's registrations as they are and issues no transport command.
C39_ClosureRemovesOnlyItsRegistration ==
    [][\A i \in DOMAIN issued :
          (SharedUnsubscribe(i) /\ Superseded(i)) =>
              /\ handlersOf' = handlersOf
              /\ wireQueue' = wireQueue
      ]_vars

(***************************************************************************)
(* A publish that raises and the durable log (checked under SpecPublish)   *)
(***************************************************************************)

\* The number of the publish() call caller c made last.
CurrentCall(c) ==
    CHOOSE n \in DOMAIN calls :
        /\ calls[n].caller = c
        /\ \A k \in DOMAIN calls : calls[k].caller = c => k <= n

\* C40: a publish call that has raised an error to its caller has left no entry in the
\* durable log.
C40_FailedPublishLeavesNoEntry ==
    \A c \in Callers :
        call[c].pc = "threw" => CurrentCall(c) \notin Range(streamBy)
====
